---- MODULE Spec2Model ----
(***************************************************************************)
(* A model of autoflake8's rewrite engine (src/autoflake8/fix.py,          *)
(* src/autoflake8/multiline.py, src/autoflake8/pending_fix.py).            *)
(*                                                                         *)
(* Text.  A byte string is a sequence of lexemes: each lexeme is one       *)
(* punctuation byte (" ", "\n", "\t", ",", "(", ")", "\\", "#", ";", ":",  *)
(* "=", "*", "."), or a whole word ("import", "from", "pass", "as", ...).   *)
(* Every byte-level operation of the code (strip, find, split, replace,    *)
(* the regular expressions, sorted) is written out over these sequences;   *)
(* words are kept whole because the code only ever looks at them through   *)
(* \b...\b, \w+ and [^,\s]+.                                               *)
(***************************************************************************)
EXTENDS Integers, Sequences, FiniteSets, TLC

VARIABLES
    \* ---- one flagged import statement (filter_unused_import + PendingFix)
    ml_pc,        \* "new" | "pending" | "done" | "raised" | "off"
    ml_input,     \* physical lines of the source not yet dispatched
    ml_prev,      \* previous_line handed to filter_unused_import
    ml_remove,    \* unused_module: the fully-qualified names reported unused
    ml_fix,       \* the FilterMultilineImport object, or NoFix
    ml_consumed,  \* physical lines handed to the rewrite so far
    ml_result,    \* the bytes finally emitted
    \* ---- the pruner (filter_useless_pass)
    p_pc,         \* "start" | "marked" | "done" | "off"
    p_source,     \* the text handed to filter_useless_pass
    p_marked,     \* marked_lines
    p_out,        \* the joined output
    \* ---- the driver (fix_code), called once and then again on its result
    d_pc,           \* "idle" | "loop" | "return" | "raise" | "off"
    d_run,          \* 1: the first call, 2: the call on the first call's result
    d_given,        \* the arguments of the first call
    d_source,       \* fix_code's local `source`
    d_remove_unused_variables,   \* the local flag, cleared on `nonlocal`
    d_filtered_source,           \* the value returned
    d_raised,       \* the exception that left fix_code, "" for none
    d_quiet,        \* no analyzer call of this behaviour reported a message
    d_last,         \* the latest iteration of the first call: its text, the analyzer's answer
    d_first,        \* the value the first call returned
    \* ---- one pass of the dispatcher (filter_code), line by line
    f_pc,           \* "start" | "loop" | "done" | "raise" | "off"
    f_given,        \* the arguments of filter_code and what check() returned
    f_marks,        \* the marked line numbers and names (lines 276-313)
    f_line_number,  \* the number of the next line of the loop
    f_st,           \* the loop's locals: result, previous_line, what was yielded
    f_results,      \* the value `result` took on each line so far
    f_out,          \* the joined output
    f_raised        \* the exception that left filter_code, "" for none

ml_vars == <<ml_pc, ml_input, ml_prev, ml_remove, ml_fix, ml_consumed, ml_result>>
p_vars == <<p_pc, p_source, p_marked, p_out>>
d_vars == <<d_pc, d_run, d_given, d_source, d_remove_unused_variables, d_filtered_source,
            d_raised, d_quiet, d_last, d_first>>
f_vars == <<f_pc, f_given, f_marks, f_line_number, f_st, f_results, f_out, f_raised>>

-----------------------------------------------------------------------------
(* Bytes helpers *)

\* string.whitespace, restricted to the bytes of the alphabet
bytes_wsp == {" ", "\n", "\t"}

\* The bytes of each lexeme, for Python's ordering of byte strings (sorted()).
Code(lex) ==
    CASE lex = "\t" -> <<9>>
      [] lex = "\n" -> <<10>>
      [] lex = " " -> <<32>>
      [] lex = "#" -> <<35>>
      [] lex = "(" -> <<40>>
      [] lex = ")" -> <<41>>
      [] lex = "*" -> <<42>>
      [] lex = "," -> <<44>>
      [] lex = "." -> <<46>>
      [] lex = "1" -> <<49>>
      [] lex = "2" -> <<50>>
      [] lex = ":" -> <<58>>
      [] lex = ";" -> <<59>>
      [] lex = "=" -> <<61>>
      [] lex = ">" -> <<62>>
      [] lex = "\\" -> <<92>>
      [] lex = "a" -> <<97>>
      [] lex = "as" -> <<97, 115>>
      [] lex = "b" -> <<98>>
      [] lex = "c" -> <<99>>
      [] lex = "del" -> <<100, 101, 108>>
      [] lex = "e" -> <<101>>
      [] lex = "except" -> <<101, 120, 99, 101, 112, 116>>
      [] lex = "f" -> <<102>>
      [] lex = "from" -> <<102, 114, 111, 109>>
      [] lex = "if" -> <<105, 102>>
      [] lex = "import" -> <<105, 109, 112, 111, 114, 116>>
      [] lex = "k" -> <<107>>
      [] lex = "m" -> <<109>>
      [] lex = "nonlocal" -> <<110, 111, 110, 108, 111, 99, 97, 108>>
      [] lex = "pass" -> <<112, 97, 115, 115>>
      [] lex = "x" -> <<120>>
      [] lex = "y" -> <<121>>
      [] OTHER -> <<63>>

RECURSIVE Bytes(_)
Bytes(s) == IF s = <<>> THEN <<>> ELSE Code(Head(s)) \o Bytes(Tail(s))

\* bytes.__lt__: lexicographic order of the byte values
RECURSIVE LexLess(_, _)
LexLess(u, v) ==
    IF v = <<>> THEN FALSE
    ELSE IF u = <<>> THEN TRUE
    ELSE IF Head(u) /= Head(v) THEN Head(u) < Head(v)
    ELSE LexLess(Tail(u), Tail(v))

BytesLess(s, t) == LexLess(Bytes(s), Bytes(t))

\* sorted(items) for a list of byte strings (insertion of the head into the
\* sorted tail; equal strings are indistinguishable, so stability is moot)
RECURSIVE sorted(_)
sorted(items) ==
    IF items = <<>> THEN <<>>
    ELSE LET rest == sorted(Tail(items))
             h == Head(items)
             lt == SelectSeq(rest, LAMBDA t: BytesLess(t, h))
             ge == SelectSeq(rest, LAMBDA t: ~BytesLess(t, h))
         IN lt \o <<h>> \o ge

\* b"".join(parts)
RECURSIVE Join(_)
Join(parts) == IF parts = <<>> THEN <<>> ELSE Head(parts) \o Join(Tail(parts))

\* sep.join(parts)
RECURSIVE JoinWith(_, _)
JoinWith(sep, parts) ==
    IF parts = <<>> THEN <<>>
    ELSE IF Len(parts) = 1 THEN Head(parts)
    ELSE Head(parts) \o sep \o JoinWith(sep, Tail(parts))

\* ch in line
Contains(line, ch) == \E i \in 1..Len(line) : line[i] = ch

\* line.find(ch): 0-based index of the first occurrence, -1 when absent
find(line, ch) ==
    IF Contains(line, ch)
    THEN (CHOOSE i \in 1..Len(line) :
              line[i] = ch /\ \A j \in 1..(i - 1) : line[j] /= ch) - 1
    ELSE -1

RECURSIVE lstrip(_, _)
lstrip(s, chars) ==
    IF s /= <<>> /\ Head(s) \in chars THEN lstrip(Tail(s), chars) ELSE s

RECURSIVE rstrip(_, _)
rstrip(s, chars) ==
    IF s /= <<>> /\ s[Len(s)] \in chars
    THEN rstrip(SubSeq(s, 1, Len(s) - 1), chars)
    ELSE s

strip(s, chars) == lstrip(rstrip(s, chars), chars)

\* s.startswith(prefix) / s.endswith(suffix)
startswith(s, prefix) ==
    Len(s) >= Len(prefix) /\ SubSeq(s, 1, Len(prefix)) = prefix

endswith(s, suffix) ==
    Len(s) >= Len(suffix) /\ SubSeq(s, Len(s) - Len(suffix) + 1, Len(s)) = suffix

\* source.splitlines(keepends=True)
RECURSIVE splitlines(_)
splitlines(source) ==
    IF source = <<>> THEN <<>>
    ELSE LET n == find(source, "\n")
         IN IF n < 0 THEN <<source>>
            ELSE <<SubSeq(source, 1, n + 1)>>
                 \o splitlines(SubSeq(source, n + 2, Len(source)))

\* bytes.replace(old, new): every non-overlapping occurrence, left to right
RECURSIVE replace(_, _, _)
replace(s, old, new) ==
    IF s = <<>> THEN <<>>
    ELSE IF old /= <<>> /\ startswith(s, old)
    THEN new \o replace(SubSeq(s, Len(old) + 1, Len(s)), old, new)
    ELSE <<Head(s)>> \o replace(Tail(s), old, new)

\* bytes.split(sep) for a one-byte separator
RECURSIVE split(_, _)
split(s, sep) ==
    LET n == find(s, sep)
    IN IF n < 0 THEN <<s>>
       ELSE <<SubSeq(s, 1, n)>> \o split(SubSeq(s, n + 2, Len(s)), sep)

-----------------------------------------------------------------------------
(* pending_fix.py *)

get_line_ending(line) ==
    LET non_whitespace_index == Len(rstrip(line, bytes_wsp)) - Len(line)
    IN IF non_whitespace_index = 0 THEN <<>>
       ELSE SubSeq(line, Len(line) + non_whitespace_index + 1, Len(line))

\* fix.py
get_indentation(line) ==
    IF strip(line, bytes_wsp) /= <<>>
    THEN LET non_whitespace_index == Len(line) - Len(lstrip(line, bytes_wsp))
         IN SubSeq(line, 1, non_whitespace_index)
    ELSE <<>>

-----------------------------------------------------------------------------
(* Regular expressions of fix.py and multiline.py, over lexemes *)

NoBase == [found |-> FALSE, base |-> <<>>]

\* leading run of s made of lexemes satisfying Test
RECURSIVE RunLen(_, _)
RunLen(s, chars) ==
    IF s /= <<>> /\ Head(s) \in chars THEN 1 + RunLen(Tail(s), chars) ELSE 0

RECURSIVE RunLenNot(_, _)
RunLenNot(s, chars) ==
    IF s /= <<>> /\ Head(s) \notin chars THEN 1 + RunLenNot(Tail(s), chars) ELSE 0

\* rb"\bfrom\s+([^ ]+)" matched at position i of s (s[i] = "from"):
\* \s+ is greedy and gives bytes back to [^ ]+ when nothing follows it.
BaseAt(s, i) ==
    LET rest == SubSeq(s, i + 1, Len(s))
        w == RunLen(rest, bytes_wsp)
        after == SubSeq(rest, w + 1, Len(rest))
        back == {p \in 2..w : rest[p] /= " "}
    IN IF s[i] /= "from" \/ w = 0 THEN NoBase
       ELSE IF after /= <<>>
       THEN [found |-> TRUE, base |-> SubSeq(after, 1, RunLenNot(after, {" "}))]
       ELSE IF back /= {}
       THEN LET p == CHOOSE q \in back : \A r \in back : r <= q
                tail == SubSeq(rest, p, Len(rest))
            IN [found |-> TRUE, base |-> SubSeq(tail, 1, RunLenNot(tail, {" "}))]
       ELSE NoBase

\* Regex.BASE_MODULE.search(s) / FilterMultilineImport.BASE_RE.search(s)
BASE_RE_search(s) ==
    LET hits == {i \in 1..Len(s) : BaseAt(s, i).found}
    IN IF hits = {} THEN NoBase
       ELSE BaseAt(s, CHOOSE i \in hits : \A j \in hits : i <= j)

\* re.split(rb"\bimport\b", line, maxsplit=1): one part when there is no match
import_split(line) ==
    LET n == find(line, "import")
    IN IF n < 0 THEN <<line>>
       ELSE <<SubSeq(line, 1, n), SubSeq(line, n + 2, Len(line))>>

\* IMPORT_RE = rb"\bimport\b\s*": the separator swallows the whitespace after it
IMPORT_RE_split(line) ==
    LET parts == import_split(line)
    IN IF Len(parts) = 1 THEN parts
       ELSE <<parts[1], lstrip(parts[2], bytes_wsp)>>

\* re.split(rb"\s*,\s*", s)
RECURSIVE comma_split(_)
comma_split(s) ==
    LET n == find(s, ",")
    IN IF n < 0 THEN <<s>>
       ELSE <<rstrip(SubSeq(s, 1, n), bytes_wsp)>>
            \o comma_split(lstrip(SubSeq(s, n + 2, Len(s)), bytes_wsp))

\* SEGMENT_RE = rb"([^,\s]+(?:[\s\\]+as[\s\\]+[^,\s]+)?[,\s\\)]*)"
SegCore == {",", " ", "\n", "\t"}
SegAlias == {" ", "\n", "\t", "\\"}
SegTail == {",", " ", "\n", "\t", "\\", ")"}

\* length of the optional group (?:[\s\\]+as[\s\\]+[^,\s]+)? at the head of s
AliasLen(s) ==
    LET w1 == RunLen(s, SegAlias)
        s1 == SubSeq(s, w1 + 1, Len(s))
        s2 == IF s1 = <<>> THEN <<>> ELSE Tail(s1)
        w2 == RunLen(s2, SegAlias)
        s3 == SubSeq(s2, w2 + 1, Len(s2))
        n3 == RunLenNot(s3, SegCore)
    IN IF w1 = 0 \/ s1 = <<>> \/ Head(s1) /= "as" \/ w2 = 0 THEN 0
       ELSE IF n3 > 0 THEN w1 + 1 + w2 + n3
       \* [\s\\]+ gives its last backslash back to [^,\s]+
       ELSE IF w2 >= 2 /\ s2[w2] = "\\" THEN w1 + 1 + w2
       ELSE 0

\* the match without its trailing punctuation
SegmentLen_core_only(s) == RunLenNot(s, SegCore)

\* length of one match of SEGMENT_RE at the head of s (0: no match here)
SegmentLen(s) ==
    LET core == RunLenNot(s, SegCore)
        s1 == SubSeq(s, core + 1, Len(s))
        alias == AliasLen(s1)
        s2 == SubSeq(s1, alias + 1, Len(s1))
    IN IF core = 0 THEN 0 ELSE core + alias + RunLen(s2, SegTail)

\* SEGMENT_RE.findall(s): bytes at which no match starts are skipped
RECURSIVE SEGMENT_RE_findall(_)
SEGMENT_RE_findall(s) ==
    IF s = <<>> THEN <<>>
    ELSE LET n == SegmentLen(s)
         IN IF n = 0 THEN SEGMENT_RE_findall(Tail(s))
            ELSE <<SubSeq(s, 1, n)>> \o SEGMENT_RE_findall(SubSeq(s, n + 1, Len(s)))

-----------------------------------------------------------------------------
(* multiline.py *)

\* the char looked for in the comment as well
_valid_char_anywhere(char, line) == Contains(line, char)

_valid_char_in_line(char, line) ==
    LET comment_index == find(line, "#")
        char_index == find(line, char)
    IN char_index >= 0 /\ (comment_index > char_index \/ comment_index < 0)

_segment_module(segment) ==
    LET m == strip(segment, bytes_wsp \cup {",", "\\", "(", ")"})
    IN IF m /= <<>> THEN m ELSE segment

\* parent: [found, base] as returned by BASE_RE_search (found = FALSE: None)
_filter_imports(imports, parent, unused_module) ==
    LET sep == IF parent.found /\ parent.base /= <<>> /\ endswith(parent.base, <<".">>)
               THEN <<>> ELSE <<".">>
        full_name(name) == IF ~parent.found THEN name ELSE parent.base \o sep \o name
    IN SelectSeq(imports, LAMBDA x : full_name(x) \notin unused_module)

-----------------------------------------------------------------------------
(* What a rewrite hands back: bytes, a PendingFix to be called with the     *)
(* next line, or an exception that nothing in the core catches.             *)

Done(b) == [kind |-> "bytes", value |-> b, error |-> ""]
Pending(f) == [kind |-> "pending", value |-> f, error |-> ""]
Raised(e) == [kind |-> "raise", value |-> <<>>, error |-> e]

import_ == <<"import", " ">>

\* the placeholder left out: the statement is deleted
pass_removed == <<>>

pass_ == <<"pass">>

\* tokenize.generate_tokens over one line taken alone raises TokenError
\* ("EOF in multi-line statement") exactly when a bracket is left unbalanced
\* outside a comment: the tokenizer's parenlev is not 0 at end of input.
RECURSIVE parenlev(_)
parenlev(s) ==
    IF s = <<>> \/ Head(s) = "#" THEN 0
    ELSE (IF Head(s) = "(" THEN 1 ELSE IF Head(s) = ")" THEN -1 ELSE 0)
         + parenlev(Tail(s))

tokenize_line_fails(line) == parenlev(line) /= 0

is_multiline_statement(line, previous_line) ==
    IF \E symbol \in {"\\", ":", ";"} : Contains(line, symbol) THEN TRUE
    ELSE IF tokenize_line_fails(line) THEN TRUE
    ELSE endswith(rstrip(previous_line, bytes_wsp), <<"\\">>)

is_multiline_import(line, previous_line) ==
    IF \E symbol \in {"(", ")"} : Contains(line, symbol) THEN TRUE
    ELSE is_multiline_statement(line, previous_line)

\* FilterMultilineImport.analyze: the new value of give_up
analyze(give_up, line) ==
    IF \E ch \in {";", ":", "#"} : Contains(line, ch) THEN TRUE ELSE give_up

\* FilterMultilineImport.__init__ (a ValueError when the line has no `import`)
FilterMultilineImport_init(line, unused_module, previous_line) ==
    LET parts == IMPORT_RE_split(line)
        match == BASE_RE_search(parts[1])
    IN IF Len(parts) /= 2 THEN Raised("ValueError")
       ELSE Pending([remove |-> unused_module,
                     parenthesized |-> Contains(line, "("),
                     from_ |-> parts[1],
                     base |-> match,
                     give_up |-> analyze(Contains(previous_line, "\\"), line),
                     accumulator |-> <<parts[2]>>])

\* FilterMultilineImport.is_over; line = <<>> stands for None and for b""
is_over(self, line) ==
    LET l == IF line /= <<>> THEN line
             ELSE self.accumulator[Len(self.accumulator)]
    IN IF self.parenthesized THEN _valid_char_in_line(")", l)
       ELSE ~_valid_char_in_line("\\", l)

\* templates[: len(keep)]: the final segment's template is not kept
TemplateIndices_in_order(nkeep, nsegments) == [i \in 1..nkeep |-> i]

\* templates[: len(keep) - 1] + templates[-1:], as indices into segments
TemplateIndices(nkeep, nsegments) ==
    [i \in 1..nkeep |-> IF i < nkeep THEN i ELSE nsegments]

\* the edge case never taken
one_parenthesis_never(parenthesized, fixed) == FALSE

\* multiline.py line 96: the test of the inline-parenthesis edge case
one_parenthesis_left(parenthesized, fixed) == parenthesized /\ \E ch \in {"(", ")"} : ~Contains(fixed, ch)

\* FilterMultilineImport.fix
fix(self, accumulated) ==
    LET old_imports == Join(accumulated)
        ending == get_line_ending(old_imports)
        indentation == SubSeq(self.from_, 1, RunLen(self.from_, bytes_wsp))
        \* lines 99-107
        Emit(fixed) ==
            IF Len(strip(fixed, bytes_wsp \cup {"\\", "(", ")", ","})) < 1
            THEN indentation \o pass_ \o ending
            ELSE self.from_ \o import_ \o fixed
        \* lines 95-97
        Fixed(keep, substituted) ==
            IF keep = <<>> THEN <<>>
            ELSE IF one_parenthesis_left(self.parenthesized, substituted)
            THEN strip(substituted, bytes_wsp \cup {"(", ")"}) \o ending
            ELSE substituted
        \* lines 90-93
        Substituted(segments, modules, keep, templates) ==
            Join([i \in 1..Len(keep) |->
                    replace(segments[templates[i]], modules[templates[i]], keep[i])])
        \* lines 77-78, 86-87
        Kept(segments, modules, keep) ==
            IF Len(keep) = Len(segments)
            THEN self.from_ \o import_ \o old_imports
            ELSE Emit(Fixed(keep,
                            Substituted(segments, modules, keep,
                                        TemplateIndices(Len(keep), Len(segments)))))
        \* line 74
        Filtered(segments, modules) ==
            Kept(segments, modules, _filter_imports(modules, self.base, self.remove))
        \* line 73
        Segmented(segments) ==
            Filtered(segments,
                     [i \in 1..Len(segments) |-> _segment_module(segments[i])])
    IN Segmented(SEGMENT_RE_findall(old_imports))

\* FilterMultilineImport.__call__; line = <<>> stands for None
accumulate(self, line) ==
    IF line /= <<>>
    THEN [self EXCEPT !.accumulator = Append(@, line),
                      !.give_up = analyze(@, line)]
    ELSE self

\* the call that, once the statement is over, hands back the line it was given
FilterMultilineImport_call_last_line(self, line) ==
    LET fed == accumulate(self, line)
    IN IF ~is_over(fed, line) THEN Pending(fed) ELSE Done(line)

FilterMultilineImport_call(self, line) ==
    LET fed == accumulate(self, line)
    IN IF ~is_over(fed, line) THEN Pending(fed)
       ELSE IF fed.give_up
       THEN Done(fed.from_ \o import_ \o Join(fed.accumulator))
       ELSE Done(fix(fed, fed.accumulator))

-----------------------------------------------------------------------------
(* fix.py: single-line import rewrites *)

filter_from_import(line, unused_module) ==
    LET parts == import_split(line)
        indentation == parts[1]
        base_module == BASE_RE_search(indentation)
        imports == comma_split(strip(parts[2], bytes_wsp))
        filtered_imports == _filter_imports(imports, base_module, unused_module)
    IN IF Len(parts) /= 2 THEN Raised("ValueError")
       ELSE IF filtered_imports = <<>>
       THEN Done(get_indentation(line) \o pass_ \o get_line_ending(line))
       ELSE Done(indentation \o import_
                 \o JoinWith(<<",", " ">>, sorted(filtered_imports))
                 \o get_line_ending(line))

break_up_import(line) ==
    LET newline == get_line_ending(line)
        parts == import_split(line)
        indentation == parts[1] \o import_
        names == sorted(split(parts[2], ","))
    IN IF \/ \E ch \in {"\\", "(", ")", ";", "#"} : Contains(line, ch)
          \/ startswith(lstrip(line, bytes_wsp), <<"from">>)
       THEN Raised("AssertionError")
       ELSE IF newline = <<>> THEN Done(line)
       ELSE IF Len(parts) /= 2 THEN Raised("ValueError")
       ELSE Done(Join([i \in 1..Len(names) |->
                         indentation \o strip(names[i], bytes_wsp) \o newline]))

filter_unused_import(line, unused_module, previous_line) ==
    LET is_from_import == startswith(lstrip(line, bytes_wsp), <<"from">>)
        init == FilterMultilineImport_init(line, unused_module, previous_line)
    IN IF startswith(lstrip(line, bytes_wsp), <<">">>) THEN Done(line)
       ELSE IF is_multiline_import(line, previous_line)
       THEN IF init.kind = "raise" THEN init
            ELSE FilterMultilineImport_call(init.value, <<>>)
       ELSE IF Contains(line, ",") /\ ~is_from_import THEN break_up_import(line)
       ELSE IF Contains(line, ",") THEN filter_from_import(line, unused_module)
       ELSE Done(get_indentation(line) \o pass_ \o get_line_ending(line))

-----------------------------------------------------------------------------
(* tokenize.generate_tokens, as useless_pass_line_numbers reads it: the      *)
(* type, the start row and the physical line of every token, or the         *)
(* SyntaxError/TokenError the generator raises.  Strings are not part of    *)
(* the alphabet.                                                            *)

Token(type, row, line) == [type |-> type, row |-> row, line |-> line]

Punctuation == {" ", "\n", "\t", "#", "(", ")", "*", ",", ".", ":", ";", "=", ">", "\\"}

TokenType(lex) ==
    IF lex \in {"1", "2"} THEN "NUMBER"
    ELSE IF lex \notin Punctuation THEN "NAME"
    ELSE "OP"

\* the tokens of `rest`, the unread part of physical line `line`;
\* [tokens, parenlev, continued]
RECURSIVE ScanLine(_, _, _, _)
ScanLine(rest, line, row, lev) ==
    IF rest = <<>> THEN [tokens |-> <<>>, parenlev |-> lev, continued |-> FALSE]
    ELSE IF Head(rest) \in {" ", "\t"} THEN ScanLine(Tail(rest), line, row, lev)
    ELSE IF Head(rest) = "\n"
    THEN [tokens |-> <<Token(IF lev > 0 THEN "NL" ELSE "NEWLINE", row, line)>>,
          parenlev |-> lev, continued |-> FALSE]
    ELSE IF Head(rest) = "#"
    THEN LET n == find(rest, "\n")
             more == IF n < 0 THEN <<>> ELSE SubSeq(rest, n + 1, Len(rest))
             r == ScanLine(more, line, row, lev)
         IN [r EXCEPT !.tokens = <<Token("COMMENT", row, line)>> \o @]
    ELSE IF Head(rest) = "\\" /\ Tail(rest) = <<"\n">>
    THEN [tokens |-> <<>>, parenlev |-> lev, continued |-> TRUE]
    ELSE LET lev2 == IF Head(rest) = "(" THEN lev + 1
                     ELSE IF Head(rest) = ")" THEN lev - 1 ELSE lev
             type == IF Head(rest) = "\\" THEN "ERRORTOKEN" ELSE TokenType(Head(rest))
             r == ScanLine(Tail(rest), line, row, lev2)
         IN [r EXCEPT !.tokens = <<Token(type, row, line)>> \o @]

\* INDENT / DEDENT tokens for a statement starting at `column`;
\* [error, tokens, indents]
RECURSIVE Dedent(_, _, _, _)
Dedent(indents, column, row, line) ==
    IF column < indents[Len(indents)]
    THEN IF \A i \in 1..Len(indents) : indents[i] /= column
         THEN [error |-> TRUE, tokens |-> <<>>, indents |-> indents]
         ELSE LET r == Dedent(SubSeq(indents, 1, Len(indents) - 1), column, row, line)
              IN [r EXCEPT !.tokens = <<Token("DEDENT", row, line)>> \o @]
    ELSE [error |-> FALSE, tokens |-> <<>>, indents |-> indents]

Indentation(indents, column, row, line) ==
    IF column > indents[Len(indents)]
    THEN [error |-> FALSE, tokens |-> <<Token("INDENT", row, line)>>,
          indents |-> Append(indents, column)]
    ELSE Dedent(indents, column, row, line)

\* the implicit NEWLINE, the closing DEDENTs and the ENDMARKER
EndTokens(last_line, lnum, indents) ==
    (IF /\ last_line /= <<>>
        /\ last_line[Len(last_line)] /= "\n"
        /\ ~startswith(strip(last_line, bytes_wsp), <<"#">>)
     THEN <<Token("NEWLINE", lnum - 1, <<>>)>> ELSE <<>>)
    \o [i \in 1..(Len(indents) - 1) |-> Token("DEDENT", lnum, <<>>)]
    \o <<Token("ENDMARKER", lnum, <<>>)>>

\* the tokenizer's main loop over the physical lines from `row` on;
\* [error, tokens]
RECURSIVE TokenizeFrom(_, _, _, _, _)
TokenizeFrom(lines, row, indents, lev, continued) ==
    IF row > Len(lines)
    THEN IF lev /= 0 \/ continued
         THEN [error |-> TRUE, tokens |-> <<>>]   \* EOF in multi-line statement
         ELSE [error |-> FALSE,
               tokens |-> EndTokens(IF lines = <<>> THEN <<>> ELSE lines[Len(lines)],
                                    row, indents)]
    ELSE LET line == lines[row]
             column == RunLen(line, {" "})
             body == SubSeq(line, column + 1, Len(line))
         IN IF lev = 0 /\ ~continued
            THEN \* a new statement
                 IF body = <<>>
                 THEN \* only blanks and no line break: the loop stops here
                      [error |-> FALSE,
                       tokens |-> EndTokens(IF row = 1 THEN <<>> ELSE lines[row - 1],
                                            row, indents)]
                 ELSE IF Head(body) \in {"#", "\n"}
                 THEN \* a comment or a blank line: no indentation, NL
                      LET toks == (IF Head(body) = "#"
                                   THEN <<Token("COMMENT", row, line)>> ELSE <<>>)
                                  \o <<Token("NL", row, line)>>
                          r == TokenizeFrom(lines, row + 1, indents, lev, FALSE)
                      IN [r EXCEPT !.tokens = toks \o @]
                 ELSE LET ind == Indentation(indents, column, row, line)
                          scan == ScanLine(body, line, row, lev)
                          r == TokenizeFrom(lines, row + 1, ind.indents,
                                            scan.parenlev, scan.continued)
                      IN IF ind.error THEN [error |-> TRUE, tokens |-> <<>>]
                         ELSE [r EXCEPT !.tokens = ind.tokens \o scan.tokens \o @]
            ELSE \* a continued statement
                 LET scan == ScanLine(line, line, row, lev)
                     r == TokenizeFrom(lines, row + 1, indents,
                                       scan.parenlev, scan.continued)
                 IN [r EXCEPT !.tokens = scan.tokens \o @]

generate_tokens(source) == TokenizeFrom(splitlines(source), 1, <<0>>, 0, FALSE)

-----------------------------------------------------------------------------
(* fix.py: the pruner of redundant `pass` lines *)

ATOMS == {"NAME", "NUMBER", "STRING"}

\* the test under the comment Leading "pass"
leading_pass_any_token(start_row, last_pass_row, line, last_pass_indentation, token_type, is_pass) ==
    /\ start_row - 1 = last_pass_row
    /\ get_indentation(line) = last_pass_indentation
    /\ ~is_pass

leading_pass(start_row, last_pass_row, line, last_pass_indentation, token_type, is_pass) ==
    /\ start_row - 1 = last_pass_row
    /\ get_indentation(line) = last_pass_indentation
    /\ token_type \in ATOMS
    /\ ~is_pass

\* the test under the comment Trailing "pass"
trailing_pass_after_indent(is_pass, previous_token_type, previous_line) ==
    /\ is_pass
    /\ ~endswith(rstrip(previous_line, bytes_wsp), <<"\\">>)

trailing_pass(is_pass, previous_token_type, previous_line) ==
    /\ is_pass
    /\ previous_token_type /= "INDENT"
    /\ ~endswith(rstrip(previous_line, bytes_wsp), <<"\\">>)

\* the loop of useless_pass_line_numbers over tokens[i..], carrying its four
\* locals; the set of rows it yields
RECURSIVE PassRows(_, _, _, _, _, _)
PassRows(tokens, i, previous_token_type, last_pass_row, last_pass_indentation, previous_line) ==
    IF i > Len(tokens) THEN {}
    ELSE LET token_type == tokens[i].type
             start_row == tokens[i].row
             line == tokens[i].line
             is_pass == token_type = "NAME" /\ strip(line, bytes_wsp) = <<"pass">>
             leading ==
                 IF leading_pass(start_row, last_pass_row, line,
                                 last_pass_indentation, token_type, is_pass)
                 THEN {start_row - 1} ELSE {}
             trailing ==
                 IF trailing_pass(is_pass, previous_token_type, previous_line)
                 THEN {start_row} ELSE {}
         IN leading \cup trailing \cup
            PassRows(tokens, i + 1, token_type,
                     IF is_pass THEN start_row ELSE last_pass_row,
                     IF is_pass THEN get_indentation(line) ELSE last_pass_indentation,
                     line)

\* [error, rows]: error when the token generator raised on the way
useless_pass_line_numbers(source) ==
    CHOOSE marks \in
        {IF t.error THEN [error |-> TRUE, rows |-> {}]
         ELSE [error |-> FALSE,
               rows |-> PassRows(t.tokens, 1, "None", -1, <<"None">>, <<>>)] :
         t \in {generate_tokens(source)}} : TRUE

\* the rows the generator yielded, up to the point where it raised if it did
marked_lines_partial(source) == PassRows(generate_tokens(source).tokens, 1, "None", -1, <<"None">>, <<>>)

\* filter_useless_pass lines 518-521: no row at all when the generator raised
marked_lines(source) == CHOOSE rows \in {IF marks.error THEN {} ELSE marks.rows : marks \in {useless_pass_line_numbers(source)}} : TRUE

\* the lines whose number is not marked, in order
Unmarked(lines, marked_lines_) ==
    LET keep == {n \in 1..Len(lines) : n \notin marked_lines_}
        F[n \in 0..Len(lines)] ==
            IF n = 0 THEN <<>>
            ELSE IF n \in keep THEN Append(F[n - 1], lines[n]) ELSE F[n - 1]
    IN F[Len(lines)]

filter_useless_pass(source) ==
    CHOOSE kept \in
        {Join(Unmarked(lines, marked_lines(source))) :
         lines \in {splitlines(source)}} : TRUE

-----------------------------------------------------------------------------
(* fix.py: the rewrites of flagged variables, dictionary keys and star       *)
(* imports                                                                   *)

\* \w+ : one word or number of the alphabet
IsWord(lex) == lex \notin Punctuation

\* re.match(Regex.EXCEPT, line)
EXCEPT_match(line) ==
    LET body == IF line /= <<>> /\ line[Len(line)] = "\n"
                THEN SubSeq(line, 1, Len(line) - 1) ELSE line
        rest == lstrip(body, bytes_wsp)
        n == Len(rest)
    IN /\ n >= 8
       /\ rest[1] = "except" /\ rest[2] = " "
       /\ \A i \in 3..(n - 5) : rest[i] \in bytes_wsp \cup {",", "(", ")"} \/ IsWord(rest[i])
       /\ rest[n - 4] = " " /\ rest[n - 3] = "as" /\ rest[n - 2] = " "
       /\ IsWord(rest[n - 1]) /\ rest[n] = ":"

\* re.sub(rb" as \w+:$", b":", line, count=1) on a line EXCEPT matches
EXCEPT_sub(line) ==
    LET ending == IF line[Len(line)] = "\n" THEN <<"\n">> ELSE <<>>
        body == SubSeq(line, 1, Len(line) - Len(ending))
    IN SubSeq(body, 1, Len(body) - 5) \o <<":">> \o ending

\* ast.literal_eval(value) returns: over this alphabet, the one-lexeme
\* literals (numbers); the lines of the model carry no bracketed literal
literal_eval_ok(value) ==
    LET v == strip(value, bytes_wsp)
    IN Len(v) = 1 /\ TokenType(v[1]) = "NUMBER"

is_literal_or_name(value) ==
    IF literal_eval_ok(value) THEN TRUE
    ELSE IF strip(value, bytes_wsp) \in {<<"dict", "(", ")">>, <<"list", "(", ")">>,
                                         <<"set", "(", ")">>}
    THEN TRUE
    ELSE \* ^\w+\s*$
         /\ value /= <<>>
         /\ IsWord(value[1])
         /\ \A i \in 2..Len(value) : value[i] \in bytes_wsp

\* line.count(b"=")
count(line, ch) == Len(SelectSeq(line, LAMBDA x : x = ch))

filter_unused_variable(line) ==
    LET split_line == split(line, "=")
        value == lstrip(split_line[2], bytes_wsp)
    IN IF EXCEPT_match(line) THEN EXCEPT_sub(line)
       ELSE IF is_multiline_statement(line, <<>>) THEN line
       ELSE IF count(line, "=") = 1
       THEN IF Contains(split_line[1], ",") THEN line
            ELSE get_indentation(line)
                 \o (IF is_literal_or_name(value)
                     THEN pass_ \o get_line_ending(line) ELSE value)
       ELSE line

\* sorted(marked_line_numbers)[0]
FirstMarked(marked_line_numbers) ==
    CHOOSE n \in marked_line_numbers : \A k \in marked_line_numbers : n <= k

LastMarked(marked_line_numbers) ==
    CHOOSE n \in marked_line_numbers : \A k \in marked_line_numbers : n >= k

filter_duplicate_key_keep_first(line, line_number, marked_line_numbers) ==
    IF marked_line_numbers /= {} /\ line_number = LastMarked(marked_line_numbers)
    THEN <<>> ELSE line

filter_duplicate_key(line, line_number, marked_line_numbers) ==
    IF marked_line_numbers /= {} /\ line_number = FirstMarked(marked_line_numbers)
    THEN <<>> ELSE line

\* the last index of ch in s, 0 when absent
rfind(s, ch) ==
    IF Contains(s, ch)
    THEN CHOOSE i \in 1..Len(s) : s[i] = ch /\ \A j \in (i + 1)..Len(s) : s[j] /= ch
    ELSE 0

\* re.match(rb"\s*(.*)\s*:\s*(.*),\s*$", line): [found, key, value], the
\* groups 1 and 2; both groups are greedy and `.` stops at a line break
dict_entry_match(line) ==
    LET body == rstrip(line, bytes_wsp)          \* up to the final comma
        inner == SubSeq(body, 1, Len(body) - 1)
        colon == rfind(inner, ":")
        found == /\ body /= <<>>
                 /\ body[Len(body)] = ","
                 /\ colon > 0
                 /\ ~Contains(inner, "\n")
    IN IF ~found THEN [found |-> FALSE, key |-> <<>>, value |-> <<>>]
       ELSE [found |-> TRUE,
             key |-> lstrip(SubSeq(inner, 1, colon - 1), bytes_wsp),
             value |-> lstrip(SubSeq(inner, colon + 1, Len(inner)), bytes_wsp)]

\* key: the literal the diagnostic names, as the lexeme that spells it
dict_entry_has_key(line, key) ==
    LET result == dict_entry_match(line)
    IN IF Contains(line, "#") THEN FALSE
       ELSE IF ~result.found THEN FALSE
       ELSE IF ~literal_eval_ok(result.key) THEN FALSE
       ELSE IF is_multiline_statement(result.value, <<>>) THEN FALSE
       ELSE strip(result.key, bytes_wsp) = <<key>>

\* re.sub of Regex.STAR by b", ".join(sorted(set(names)))
filter_star_import(line, marked_star_import_undefined_name) ==
    LET names == CHOOSE q \in [1..Cardinality(marked_star_import_undefined_name)
                                 -> marked_star_import_undefined_name] :
                     \A i, j \in DOMAIN q : i /= j => q[i] /= q[j]
        undefined_name == sorted(names)
    IN replace(line, <<"*">>, JoinWith(<<",", " ">>, undefined_name))

-----------------------------------------------------------------------------
(* fix.py: the analyzer's messages, the dispatcher (filter_code) and the     *)
(* driver (fix_code).  A message is [type, lineno, arg]: arg is the name of  *)
(* an UnusedImport or ImportStarUsage, the key of a                          *)
(* MultiValueRepeatedKeyLiteral, and empty otherwise.                        *)

Message(type, lineno, arg) == [type |-> type, lineno |-> lineno, arg |-> arg]

\* what pyflakes.api.check did: the exception it raised ("" for none) and
\* the messages the reporter holds
Outcome(crash, messages) == [crash |-> crash, messages |-> messages]

\* the exceptions check() swallows
Swallowed == {"AttributeError", "RecursionError", "UnicodeDecodeError"}

\* check(source), given what the analyzer did: the messages, or the exception
\* that passes through
check(outcome) ==
    IF outcome.crash = "" \/ outcome.crash \in Swallowed
    THEN [error |-> "", messages |-> outcome.messages]
    ELSE [error |-> outcome.crash, messages |-> {}]

unused_import_line_numbers(messages) ==
    {m.lineno : m \in {x \in messages : x.type = "UnusedImport"}}

\* marked_unused_module[line_number]
unused_import_module_name(messages, line_number) ==
    {m.arg : m \in {x \in messages : x.type = "UnusedImport" /\ x.lineno = line_number}}

star_import_used_line_numbers(messages) ==
    {m.lineno : m \in {x \in messages : x.type = "ImportStarUsed"}}

star_import_usage_undefined_name(messages) ==
    {m.arg : m \in {x \in messages : x.type = "ImportStarUsage"}}

\* the first line taken for an unused variable whatever was reported
unused_variable_line_numbers_first(messages) == {1}

unused_variable_line_numbers(messages) ==
    {m.lineno : m \in {x \in messages : x.type = "UnusedVariable"}}

\* every reported line that passes the test, whatever the rest of its group
duplicate_key_line_numbers_line_by_line(messages, source) ==
    LET target_messages == {m \in messages : m.type = "MultiValueRepeatedKeyLiteral"}
        lines == split(source, "\n")
    IN IF \E m \in target_messages : m.lineno > Len(lines)
       THEN [error |-> "IndexError", rows |-> {}]
       ELSE [error |-> "",
             rows |-> {m.lineno : m \in {x \in target_messages : dict_entry_has_key(lines[x.lineno], x.arg[1])}}]

\* [error, rows]: IndexError when a message names a line the text lacks
duplicate_key_line_numbers(messages, source) ==
    LET target_messages == {m \in messages : m.type = "MultiValueRepeatedKeyLiteral"}
        lines == split(source, "\n")
        keys == {m.arg : m \in target_messages}
        group(key) == {m \in target_messages : m.arg = key}
        good(key) == \A m \in group(key) : dict_entry_has_key(lines[m.lineno], key[1])
    IN IF \E m \in target_messages : m.lineno > Len(lines)
       THEN [error |-> "IndexError", rows |-> {}]
       ELSE [error |-> "",
             rows |-> {m.lineno : m \in {x \in target_messages : good(x.arg)}}]

\* the line numbers marked whatever the option says
marked_always(option, line_numbers) == line_numbers

\* filter_code lines 303-306: line numbers are marked only under their option
marked_when(option, line_numbers) == IF option THEN line_numbers ELSE {}

\* filter_code lines 276-311: what the messages mark
Marks(source, messages, expand_star_imports, remove_duplicate_keys, remove_unused_variables) ==
    LET star_allowed == /\ expand_star_imports
                        /\ ~(Contains(source, "__all__") \/ Contains(source, "del"))
        star_lines == star_import_used_line_numbers(messages)
        undefined_names ==
            IF star_allowed /\ Cardinality(star_lines) <= 1
            THEN star_import_usage_undefined_name(messages) ELSE {}
        keys == IF remove_duplicate_keys
                THEN duplicate_key_line_numbers(messages, source)
                ELSE [error |-> "", rows |-> {}]
    IN [error |-> keys.error,
        marked_import_line_numbers |-> unused_import_line_numbers(messages),
        marked_unused_module |->
            [n \in unused_import_line_numbers(messages) |->
                unused_import_module_name(messages, n)],
        undefined_names |-> undefined_names,
        marked_star_import_line_numbers |->
            IF star_allowed /\ Cardinality(star_lines) <= 1 /\ undefined_names /= {}
            THEN star_lines ELSE {},
        marked_variable_line_numbers |->
            marked_when(remove_unused_variables, unused_variable_line_numbers(messages)),
        marked_key_line_numbers |-> keys.rows]

NoFix == [remove |-> {}, parenthesized |-> FALSE, from_ |-> <<>>, base |-> NoBase,
          give_up |-> FALSE, accumulator |-> <<>>]

\* the loop state of filter_code before its first line
LoopStart == [result |-> Done(<<>>), previous_line |-> <<>>, yielded |-> <<>>]

\* the branches with the unused import tested before the comment
Dispatch_import_first(st, line_number, line, marks) ==
    IF st.result.kind = "pending" THEN FilterMultilineImport_call(st.result.value, line)
    ELSE IF line_number \in marks.marked_import_line_numbers
    THEN filter_unused_import(line, marks.marked_unused_module[line_number],
                              st.previous_line)
    ELSE IF Contains(line, "#") THEN Done(line)
    ELSE IF line_number \in marks.marked_variable_line_numbers
    THEN Done(filter_unused_variable(line))
    ELSE IF line_number \in marks.marked_key_line_numbers
    THEN Done(filter_duplicate_key(line, line_number, marks.marked_key_line_numbers))
    ELSE IF line_number \in marks.marked_star_import_line_numbers
    THEN Done(filter_star_import(line, marks.undefined_names))
    ELSE Done(line)

\* the branches with the unused variable tested before the unused import
Dispatch_variable_first(st, line_number, line, marks) ==
    IF st.result.kind = "pending" THEN FilterMultilineImport_call(st.result.value, line)
    ELSE IF Contains(line, "#") THEN Done(line)
    ELSE IF line_number \in marks.marked_variable_line_numbers
    THEN Done(filter_unused_variable(line))
    ELSE IF line_number \in marks.marked_import_line_numbers
    THEN filter_unused_import(line, marks.marked_unused_module[line_number],
                              st.previous_line)
    ELSE IF line_number \in marks.marked_key_line_numbers
    THEN Done(filter_duplicate_key(line, line_number, marks.marked_key_line_numbers))
    ELSE IF line_number \in marks.marked_star_import_line_numbers
    THEN Done(filter_star_import(line, marks.undefined_names))
    ELSE Done(line)

\* filter_code lines 317-339: the branch taken for one line
Dispatch(st, line_number, line, marks) ==
    IF st.result.kind = "pending" THEN FilterMultilineImport_call(st.result.value, line)
    ELSE IF Contains(line, "#") THEN Done(line)
    ELSE IF line_number \in marks.marked_import_line_numbers
    THEN filter_unused_import(line, marks.marked_unused_module[line_number],
                              st.previous_line)
    ELSE IF line_number \in marks.marked_variable_line_numbers
    THEN Done(filter_unused_variable(line))
    ELSE IF line_number \in marks.marked_key_line_numbers
    THEN Done(filter_duplicate_key(line, line_number, marks.marked_key_line_numbers))
    ELSE IF line_number \in marks.marked_star_import_line_numbers
    THEN Done(filter_star_import(line, marks.undefined_names))
    ELSE Done(line)

\* filter_code lines 316-344: the loop over lines[line_number..]; an exception
\* ends it
RECURSIVE DispatchFrom(_, _, _, _)
DispatchFrom(st, lines, line_number, marks) ==
    IF line_number > Len(lines) \/ st.result.kind = "raise" THEN st
    ELSE LET line == lines[line_number]
         IN CHOOSE end \in
                {DispatchFrom([result |-> result,
                               previous_line |-> line,
                               yielded |-> IF result.kind = "bytes"
                                           THEN Append(st.yielded, result.value)
                                           ELSE st.yielded],
                              lines, line_number + 1, marks) :
                 result \in {Dispatch(st, line_number, line, marks)}} : TRUE

\* b"".join(filter_code(...)): [error, value]
filter_code(source, messages, expand_star_imports, remove_duplicate_keys, remove_unused_variables) ==
    LET Yielded(marks) ==
            CHOOSE filtered \in
                {IF end.result.kind = "raise"
                 THEN [error |-> end.result.error, value |-> <<>>]
                 ELSE [error |-> "", value |-> Join(end.yielded)] :
                 end \in {DispatchFrom(LoopStart, lines, 1, marks) :
                          lines \in {splitlines(source)}}} : TRUE
    IN CHOOSE filtered \in
           {IF marks.error /= "" THEN [error |-> marks.error, value |-> <<>>]
            ELSE Yielded(marks) :
            marks \in {Marks(source, messages, expand_star_imports,
                             remove_duplicate_keys, remove_unused_variables)}} : TRUE

\* the loop left after its first pass, whatever came out
Stable_at_once(filtered_source, source) == TRUE

\* fix_code line 566: the loop stops when a pass returns its input
Stable(filtered_source, source) == filtered_source = source

\* one iteration of fix_code's loop (lines 552-569) on `source`, given what
\* the analyzer did: [error, value]
Iteration(source, outcome, expand_star_imports, remove_duplicate_keys, remove_unused_variables) ==
    LET checked == check(outcome)
    IN IF checked.error /= "" THEN [error |-> checked.error, value |-> <<>>]
       ELSE CHOOSE it \in
                {IF filtered.error /= "" THEN filtered
                 ELSE [error |-> "", value |-> filter_useless_pass(filtered.value)] :
                 filtered \in {filter_code(source, checked.messages,
                                           expand_star_imports, remove_duplicate_keys,
                                           remove_unused_variables)}} : TRUE

-----------------------------------------------------------------------------
(* The state has three parts, one for each piece of the program that is run  *)
(* on its own; a specification runs one part and leaves the others idle.     *)

NoCall == [called |-> FALSE, source |-> <<>>, outcome |-> Outcome("", {})]

MLOff ==
    /\ ml_pc = "off"
    /\ ml_input = <<>>
    /\ ml_prev = <<>>
    /\ ml_remove = {}
    /\ ml_fix = NoFix
    /\ ml_consumed = <<>>
    /\ ml_result = <<>>

POff ==
    /\ p_pc = "off"
    /\ p_source = <<>>
    /\ p_marked = {}
    /\ p_out = <<>>

DOff ==
    /\ d_pc = "off"
    /\ d_run = 0
    /\ d_given = [source |-> <<>>, expand_star_imports |-> FALSE,
                remove_duplicate_keys |-> FALSE, remove_unused_variables |-> FALSE]
    /\ d_source = <<>>
    /\ d_remove_unused_variables = FALSE
    /\ d_filtered_source = <<>>
    /\ d_raised = ""
    /\ d_quiet = TRUE
    /\ d_last = NoCall
    /\ d_first = <<>>

NoGiven == [source |-> <<>>, messages |-> {}, expand_star_imports |-> FALSE,
            remove_duplicate_keys |-> FALSE, remove_unused_variables |-> FALSE]

FOff ==
    /\ f_pc = "off"
    /\ f_given = NoGiven
    /\ f_marks = <<>>
    /\ f_line_number = 0
    /\ f_st = LoopStart
    /\ f_results = <<>>
    /\ f_out = <<>>
    /\ f_raised = ""

-----------------------------------------------------------------------------
(* One flagged import statement: the dispatcher hands its first physical    *)
(* line to filter_unused_import (fix.py, filter_code lines 318-327) and     *)
(* every following line to the PendingFix it got back, until bytes come     *)
(* out.                                                                     *)

MaxNames == 2

Names == {"a", "b", "c"}

Heads == { <<"import", " ">>,
           <<"from", " ", "m", " ", "import", " ">>,
           <<" ", "from", " ", "m", " ", "import", " ">>,
           <<"from", " ", ".", " ", "import", " ">>,
           <<"from", " ", "m", " ", "import">>,
           <<"from", " ", "m", " ", "\\", "\n", " ", "import", " ">> }

Seps == { <<",", " ">>, <<",">>, <<",", "\n", " ">>, <<",", " ", "\\", "\n", " ">> }

\* <<what precedes the names, what follows them>>
Wraps == { << <<>>, <<>> >>,
           << <<"(">>, <<")">> >>,
           << <<"(", "\n", " ">>, <<"\n", ")">> >>,
           << <<"(">>, <<>> >> }

Trailers == { <<"\n">>, <<>>, <<" ", "\n">>, <<" ", "#", "\n">>, <<";", "\n">> }

PreviousLines == { <<>>, <<"x", "\n">>, <<"x", " ", "\\", "\n">> }

\* a bare line break between names is only legal inside parentheses
SepsOf(wrap) == IF wrap[1] = <<>> THEN Seps \ {<<",", "\n", " ">>} ELSE Seps

\* name lists: sequences of distinct names with the separator of each gap
RECURSIVE NameLists(_, _)
NameLists(n, seps) ==
    IF n = 1 THEN {[names |-> <<x>>, text |-> <<x>>] : x \in Names}
    ELSE LET shorter == NameLists(n - 1, seps)
         IN shorter \cup
            {[names |-> Append(lx[1].names, lx[2]),
              text |-> lx[1].text \o sep \o <<lx[2]>>] :
                lx \in {p \in shorter \X Names :
                          /\ Len(p[1].names) = n - 1
                          /\ \A i \in 1..(n - 1) : p[1].names[i] /= p[2]},
                sep \in seps}

\* `import(` is two words, `importa` would be one
Shapes == {hw \in Heads \X Wraps : hw[1][Len(hw[1])] = "import" => hw[2][1] /= <<>>}

Statements ==
    UNION {{[names |-> l.names, head |-> hw[1],
             text |-> hw[1] \o hw[2][1] \o l.text \o hw[2][2] \o t] :
               l \in NameLists(MaxNames, SepsOf(hw[2])), t \in Trailers} :
           hw \in Shapes}

\* the fully-qualified name pyflakes reports for `name` imported under `head`
FullName(head, name) ==
    IF Contains(head, "m") THEN <<"m", ".", name>>
    ELSE IF Contains(head, ".") THEN <<".", name>>
    ELSE <<name>>

MLInit ==
    /\ POff
    /\ DOff
    /\ FOff
    /\ \E st \in Statements, prev \in PreviousLines :
         \E unused \in SUBSET {st.names[i] : i \in 1..Len(st.names)} :
           /\ ml_pc = "new"
           /\ ml_input = splitlines(st.text)
           /\ ml_prev = prev
           /\ ml_remove = {FullName(st.head, n) : n \in unused}
           /\ ml_fix = NoFix
           /\ ml_consumed = <<>>
           /\ ml_result = <<>>

\* filter_code lines 320-327 for the flagged line: a line with a comment is
\* passed through, any other goes to filter_unused_import
MLStart ==
    /\ ml_pc = "new"
    /\ LET line == Head(ml_input)
           init == FilterMultilineImport_init(line, ml_remove, ml_prev)
           result == IF Contains(line, "#") THEN Done(line)
                     ELSE filter_unused_import(line, ml_remove, ml_prev)
       IN /\ ml_pc' = CASE result.kind = "bytes" -> "done"
                        [] result.kind = "pending" -> "pending"
                        [] OTHER -> "raised"
          /\ ml_fix' = IF ~Contains(line, "#") /\ is_multiline_import(line, ml_prev)
                          /\ init.kind = "pending"
                       THEN init.value ELSE NoFix
          /\ ml_result' = IF result.kind = "bytes" THEN result.value ELSE <<>>
          /\ ml_consumed' = <<line>>
          /\ ml_input' = Tail(ml_input)
    /\ UNCHANGED <<ml_prev, ml_remove, p_vars, d_vars, f_vars>>

\* filter_code lines 318-319: the pending fix is called with the next line
MLFeed ==
    /\ ml_pc = "pending"
    /\ ml_input /= <<>>
    /\ LET line == Head(ml_input)
           result == FilterMultilineImport_call(ml_fix, line)
       IN /\ ml_pc' = IF result.kind = "bytes" THEN "done" ELSE "pending"
          /\ ml_fix' = accumulate(ml_fix, line)
          /\ ml_result' = IF result.kind = "bytes" THEN result.value ELSE <<>>
          /\ ml_consumed' = Append(ml_consumed, line)
          /\ ml_input' = Tail(ml_input)
    /\ UNCHANGED <<ml_prev, ml_remove, p_vars, d_vars, f_vars>>

MLNext == MLStart \/ MLFeed

\* Flagged statements of one physical line, of one to MaxLineNames names
MaxLineNames == 3

LineHeads == { <<"import", " ">>,
               <<" ", "import", " ">>,
               <<"from", " ", "m", " ", "import", " ">>,
               <<" ", "from", " ", "m", " ", "import", " ">>,
               <<"from", " ", ".", " ", "import", " ">>,
               <<"from", " ", "m", "\t", "import", " ">> }

LineSeps == { <<",", " ">>, <<",">>, <<" ", ",", " ">> }

LineEndings == { <<"\n">>, <<>>, <<" ", "\n">>, <<" ">> }

LineStatements ==
    {[names |-> l.names, head |-> h, text |-> h \o l.text \o e] : h \in LineHeads, l \in NameLists(MaxLineNames, LineSeps), e \in LineEndings}

LineInit ==
    /\ POff
    /\ DOff
    /\ FOff
    /\ \E st \in LineStatements :
         \E unused \in (SUBSET {st.names[i] : i \in 1..Len(st.names)}) \ {{}} :
           /\ ml_pc = "new"
           /\ ml_input = <<st.text>>
           /\ ml_prev = <<>>
           /\ ml_remove = {FullName(st.head, n) : n \in unused}
           /\ ml_fix = NoFix
           /\ ml_consumed = <<>>
           /\ ml_result = <<>>

\* The flagged statement after a line that holds a backslash without being
\* continued: print('\n')
EscapeLine == <<"print", "(", "'", "\\", "n", "'", ")", "\n">>

PreviousInit ==
    /\ POff
    /\ DOff
    /\ FOff
    /\ \E st \in Statements, prev \in PreviousLines \cup {EscapeLine} :
         \E unused \in SUBSET {st.names[i] : i \in 1..Len(st.names)} :
           /\ ml_pc = "new"
           /\ ml_input = splitlines(st.text)
           /\ ml_prev = prev
           /\ ml_remove = {FullName(st.head, n) : n \in unused}
           /\ ml_fix = NoFix
           /\ ml_consumed = <<>>
           /\ ml_result = <<>>

\* Statements that end, or fail to end, on lines with a comment: a first
\* line followed by up to MaxFollowing lines
MaxFollowing == 2

OpeningLines ==
    { <<"from", " ", "m", " ", "import", " ", "(", "a", ",", "\n">>,
      <<"from", " ", "m", " ", "import", " ", "a", ",", " ", "\\", "\n">>,
      <<"import", " ", "a", ",", " ", "\\", "\n">>,
      <<"from", " ", "m", " ", "import", " ", "(", "a", ",", " ", "b", ")", "\n">>,
      <<"from", " ", "m", " ", "import", " ", "a", ",", " ", "b", "\n">> }

FollowingLines ==
    { <<" ", " ", "b", ")", "\n">>,
      <<" ", " ", "b", " ", "#", " ", ")", "\n">>,
      <<" ", " ", "b", ")", " ", "#", " ", "c", "\n">>,
      <<" ", " ", "b", ",", " ", "\\", "\n">>,
      <<" ", " ", "b", " ", "#", " ", "\\", "\n">>,
      <<" ", " ", "b", "\n">>,
      <<")", "\n">> }

RECURSIVE LineSeqs(_, _)
LineSeqs(n, lines) ==
    IF n = 0 THEN {<<>>}
    ELSE LET shorter == LineSeqs(n - 1, lines)
         IN shorter \cup {Append(q, l) : q \in {u \in shorter : Len(u) = n - 1}, l \in lines}

OverInit ==
    /\ POff
    /\ DOff
    /\ FOff
    /\ \E first \in OpeningLines, rest \in LineSeqs(MaxFollowing, FollowingLines) :
         \E unused \in SUBSET {"a", "b"} :
           /\ ml_pc = "new"
           /\ ml_input = <<first>> \o rest
           /\ ml_prev = <<>>
           /\ ml_remove = {FullName(first, n) : n \in unused}
           /\ ml_fix = NoFix
           /\ ml_consumed = <<>>
           /\ ml_result = <<>>

-----------------------------------------------------------------------------
(* The pruner run on one text *)

MaxPassLines == 3

LineIndents == { <<>>, <<" ">>, <<" ", " ">> }

LineBodies == { <<"pass">>,
                <<"x">>,
                <<"if", " ", "x", ":">>,
                <<"(", ")">>,
                <<"#", " ", "c">>,
                <<"pass", " ", "#", " ", "c">>,
                <<"if", " ", "x", ":", " ", "\\">> }

PassLines == {i \o b \o <<"\n">> : i \in LineIndents, b \in LineBodies} \cup {<<"\n">>}

RECURSIVE Texts(_, _)
Texts(n, lines) ==
    IF n = 0 THEN {<<>>}
    ELSE LET shorter == Texts(n - 1, lines)
         IN shorter \cup {t \o l : t \in {u \in shorter : Len(splitlines(u)) = n - 1},
                                  l \in lines}

PInit ==
    /\ MLOff
    /\ DOff
    /\ FOff
    /\ p_pc = "start"
    /\ p_source \in Texts(MaxPassLines, PassLines)
    /\ p_marked = {}
    /\ p_out = <<>>

\* filter_useless_pass lines 518-521
PMark ==
    /\ p_pc = "start"
    /\ p_marked' = marked_lines(p_source)
    /\ p_pc' = "marked"
    /\ UNCHANGED <<p_source, p_out, ml_vars, d_vars, f_vars>>

\* filter_useless_pass lines 523-525, joined by the caller
PEmit ==
    /\ p_pc = "marked"
    /\ p_out' = Join(Unmarked(splitlines(p_source), p_marked))
    /\ p_pc' = "done"
    /\ UNCHANGED <<p_source, p_marked, ml_vars, d_vars, f_vars>>

PNext == PMark \/ PEmit

-----------------------------------------------------------------------------
(* The driver: fix_code called on a text, under any analyzer that answers    *)
(* the same text with the same messages, then called again on what it        *)
(* returned.                                                                 *)

MaxLines == 2
MaxMessages == 1

SourceLines ==
    { <<"import", " ", "a", "\n">>,
      <<"import", " ", "a", ",", " ", "b", "\n">>,
      <<"from", " ", "m", " ", "import", " ", "a", ",", " ", "b", "\n">>,
      <<"from", " ", "m", " ", "import", " ", "(", "a", ",", "\n">>,
      <<" ", " ", "b", ")", "\n">>,
      <<"from", " ", "m", " ", "\\", "\n">>,
      <<"from", " ", "m", " ", "import", " ", "*", "\n">>,
      <<"x", " ", "=", " ", "1", "\n">>,
      <<"x", " ", "=", " ", "f", "(", ")", "\n">>,
      <<"1", ":", " ", "x", ",", "\n">>,
      <<"except", " ", "x", " ", "as", " ", "e", ":", "\n">>,
      <<"if", " ", "x", ":", "\n">>,
      <<"pass", "\n">>,
      <<" ", "pass", "\n">>,
      <<"nonlocal", " ", "x", "\n">>,
      <<"del", " ", "x", "\n">>,
      <<"x", " ", "#", " ", "c", "\n">> }

UnusedNames == { <<"m", ".", "a">>, <<"m", ".", "b">> }
UndefinedNames == { <<"a">> }
Keys == { <<"1">> }

\* the exceptions the analyzer may raise: one check() swallows, one it does not
Crashes == {"RecursionError", "KeyError"}

\* every message an analyzer may report about a text of n lines
MessagesAbout(n) ==
    {Message("UnusedImport", l, name) : l \in 1..n, name \in UnusedNames}
    \cup {Message("ImportStarUsed", l, <<>>) : l \in 1..n}
    \cup {Message("ImportStarUsage", 1, name) : name \in UndefinedNames}
    \cup {Message("UnusedVariable", l, <<>>) : l \in 1..n}
    \cup {Message("MultiValueRepeatedKeyLiteral", l, key) : l \in 1..n, key \in Keys}

RECURSIVE UpTo(_, _)
UpTo(k, universe) ==
    IF k = 0 THEN {{}}
    ELSE LET fewer == UpTo(k - 1, universe)
         IN fewer \cup {x \cup {m} : x \in fewer, m \in universe}

Outcomes(text) ==
    {Outcome("", ms) : ms \in UpTo(MaxMessages, MessagesAbout(Len(splitlines(text))))}
    \cup {Outcome(crash, {}) : crash \in Crashes}

\* the state before the first call on `text` with the given flags
Called(text, star, keys, variables) ==
    /\ MLOff
    /\ POff
    /\ FOff
    /\ d_pc = "idle"
    /\ d_run = 1
    /\ d_given = [source |-> text, expand_star_imports |-> star,
                remove_duplicate_keys |-> keys, remove_unused_variables |-> variables]
    /\ d_source = text
    /\ d_remove_unused_variables = variables
    /\ d_filtered_source = <<>>
    /\ d_raised = ""
    /\ d_quiet = TRUE
    /\ d_last = NoCall
    /\ d_first = <<>>

DInit ==
    \E text \in Texts(MaxLines, SourceLines), star, keys, variables \in BOOLEAN :
        Called(text, star, keys, variables)

\* the option as it was passed, whatever the text holds
nonlocal_ignored(source, remove_unused_variables) == remove_unused_variables

\* fix_code lines 547-549: the value of remove_unused_variables for the loop
nonlocal_disables(source, remove_unused_variables) == IF Contains(source, "nonlocal") THEN FALSE ELSE remove_unused_variables

\* fix_code lines 544-550
Enter ==
    /\ d_pc = "idle"
    /\ IF d_source = <<>>
       THEN /\ d_pc' = "return"
            /\ d_filtered_source' = d_source
            /\ UNCHANGED d_remove_unused_variables
       ELSE /\ d_pc' = "loop"
            /\ d_remove_unused_variables' =
                   nonlocal_disables(d_source, d_remove_unused_variables)
            /\ UNCHANGED d_filtered_source
    /\ UNCHANGED <<d_run, d_given, d_source, d_raised, d_quiet, d_last, d_first,
                   ml_vars, p_vars, f_vars>>

\* fix_code lines 552-570: one iteration, the analyzer having done `outcome`
Iterate(outcome) ==
    /\ d_pc = "loop"
    /\ \E it \in {Iteration(d_source, outcome, d_given.expand_star_imports,
                             d_given.remove_duplicate_keys, d_remove_unused_variables)} :
          IF it.error /= ""
          THEN /\ d_pc' = "raise"
               /\ d_raised' = it.error
               /\ d_last' = NoCall
               /\ UNCHANGED <<d_source, d_filtered_source>>
          ELSE IF Stable(it.value, d_source)
          THEN /\ d_pc' = "return"
               /\ d_filtered_source' = it.value
               /\ d_last' = IF d_run = 1
                            THEN [called |-> TRUE, source |-> d_source,
                                  outcome |-> outcome]
                            ELSE NoCall
               /\ UNCHANGED <<d_source, d_raised>>
          ELSE /\ d_pc' = "loop"
               /\ d_source' = it.value
               /\ d_last' = IF d_run = 1
                            THEN [called |-> TRUE, source |-> d_source,
                                  outcome |-> outcome]
                            ELSE NoCall
               /\ UNCHANGED <<d_filtered_source, d_raised>>
    /\ d_quiet' = (d_quiet /\ check(outcome) = [error |-> "", messages |-> {}])
    /\ UNCHANGED <<d_run, d_given, d_remove_unused_variables, d_first,
                   ml_vars, p_vars, f_vars>>

\* an iteration under any analyzer that is a function of the text
Pass ==
    \E outcome \in Outcomes(d_source) :
        /\ (d_last.called /\ d_last.source = d_source) => outcome = d_last.outcome
        /\ Iterate(outcome)

\* the caller hands the returned text back to fix_code, same flags
Again ==
    /\ d_pc = "return"
    /\ d_run = 1
    /\ d_pc' = "idle"
    /\ d_run' = 2
    /\ d_first' = d_filtered_source
    /\ d_source' = d_filtered_source
    /\ d_remove_unused_variables' = d_given.remove_unused_variables
    /\ d_filtered_source' = <<>>
    /\ UNCHANGED <<d_given, d_raised, d_quiet, d_last, ml_vars, p_vars, f_vars>>

DNext == Enter \/ Pass \/ Again

-----------------------------------------------------------------------------
(* The driver under an analyzer that reports, on every call, each entry of   *)
(* a dictionary display whose key is written on two or more entries.         *)

MaxEntries == 3

EntryLines ==
    { <<"1", ":", " ", "x", ",", "\n">>,
      <<"1", ":", " ", "y", ",", "\n">>,
      <<"2", ":", " ", "x", ",", "\n">>,
      <<"2", ":", " ", "y", ",", "\n">>,
      <<"1", ":", " ", "x", ",", " ", "#", " ", "c", "\n">>,
      <<"1", ":", " ", "(", "\n">> }

\* the key the analyzer reads on a line: the number that opens it before a
\* colon, <<>> when the line is no entry
EntryKey(line) ==
    LET body == lstrip(line, bytes_wsp)
    IN IF Len(body) >= 2 /\ TokenType(body[1]) = "NUMBER" /\ body[2] = ":"
       THEN <<body[1]>> ELSE <<>>

EntryRows(text, key) ==
    {i \in 1..Len(splitlines(text)) : EntryKey(splitlines(text)[i]) = key}

RepeatedKeys(text) ==
    {Message("MultiValueRepeatedKeyLiteral", i, EntryKey(splitlines(text)[i])) :
        i \in {j \in 1..Len(splitlines(text)) :
                  /\ EntryKey(splitlines(text)[j]) /= <<>>
                  /\ Cardinality(EntryRows(text, EntryKey(splitlines(text)[j]))) >= 2}}

KInit ==
    \E text \in Texts(MaxEntries, EntryLines), star, variables \in BOOLEAN :
        Called(text, star, TRUE, variables)

KPass == Iterate(Outcome("", RepeatedKeys(d_source)))

KNext == Enter \/ KPass

-----------------------------------------------------------------------------
(* One pass of the dispatcher: filter_code run on a text with the messages   *)
(* check() returned for it, one line of the loop at a time.                  *)

\* the state at the call of filter_code, check() having returned `messages`
Filtering(text, messages, star, keys, variables) ==
    /\ MLOff
    /\ POff
    /\ DOff
    /\ f_pc = "start"
    /\ f_given = [source |-> text, messages |-> messages,
                  expand_star_imports |-> star, remove_duplicate_keys |-> keys,
                  remove_unused_variables |-> variables]
    /\ f_marks = <<>>
    /\ f_line_number = 1
    /\ f_st = LoopStart
    /\ f_results = <<>>
    /\ f_out = <<>>
    /\ f_raised = ""

\* filter_code lines 276-313: the marked line numbers
FMark ==
    /\ f_pc = "start"
    /\ \E marks \in {Marks(f_given.source, f_given.messages,
                            f_given.expand_star_imports, f_given.remove_duplicate_keys,
                            f_given.remove_unused_variables)} :
          IF marks.error /= ""
          THEN /\ f_pc' = "raise"
               /\ f_raised' = marks.error
               /\ UNCHANGED f_marks
          ELSE /\ f_pc' = "loop"
               /\ f_marks' = marks
               /\ UNCHANGED f_raised
    /\ UNCHANGED <<f_given, f_line_number, f_st, f_results, f_out,
                   ml_vars, p_vars, d_vars>>

\* filter_code lines 317-344: one turn of the loop
FLine ==
    /\ f_pc = "loop"
    /\ f_line_number <= Len(splitlines(f_given.source))
    /\ \E line \in {splitlines(f_given.source)[f_line_number]} :
          \E result \in {Dispatch(f_st, f_line_number, line, f_marks)} :
             /\ f_st' = [result |-> result,
                         previous_line |-> line,
                         yielded |-> IF result.kind = "bytes"
                                     THEN Append(f_st.yielded, result.value)
                                     ELSE f_st.yielded]
             /\ f_results' = Append(f_results, result)
             /\ f_pc' = IF result.kind = "raise" THEN "raise" ELSE "loop"
             /\ f_raised' = IF result.kind = "raise" THEN result.error ELSE ""
    /\ f_line_number' = f_line_number + 1
    /\ UNCHANGED <<f_given, f_marks, f_out, ml_vars, p_vars, d_vars>>

\* the lines are exhausted: the caller joins what was yielded (fix_code
\* lines 555-562)
FEnd ==
    /\ f_pc = "loop"
    /\ f_line_number > Len(splitlines(f_given.source))
    /\ f_pc' = "done"
    /\ f_out' = Join(f_st.yielded)
    /\ UNCHANGED <<f_given, f_marks, f_line_number, f_st, f_results, f_raised,
                   ml_vars, p_vars, d_vars>>

FNext == FMark \/ FLine \/ FEnd

MaxFilterLines == 2
MaxFilterMessages == 3

FilterLines ==
    { <<"from", " ", "m", " ", "import", " ", "(", "a", ",", "\n">>,
      <<" ", " ", "b", ")", "\n">>,
      <<"import", " ", "a", "\n">>,
      <<"x", " ", "=", " ", "1", "\n">>,
      <<"1", ":", " ", "x", ",", "\n">>,
      <<"from", " ", "m", " ", "import", " ", "*", "\n">>,
      <<"import", " ", "a", " ", "#", " ", "c", "\n">> }

\* the messages an analyzer may report about a text of n lines
FilterMessages(n) ==
    {Message("UnusedImport", l, <<"m", ".", "a">>) : l \in 1..n}
    \cup {Message("ImportStarUsed", l, <<"m">>) : l \in 1..n}
    \cup {Message("ImportStarUsage", 1, <<"a">>)}
    \cup {Message("UnusedVariable", l, <<>>) : l \in 1..n}
    \cup {Message("MultiValueRepeatedKeyLiteral", l, <<"1">>) : l \in 1..n}

FInit ==
    \E text \in Texts(MaxFilterLines, FilterLines) \ {<<>>},
       star, keys, variables \in BOOLEAN :
      \E messages \in UpTo(MaxFilterMessages, FilterMessages(Len(splitlines(text)))) :
        Filtering(text, messages, star, keys, variables)

\* Dict entries: texts of entries under an analyzer that reports a repeated
\* key on every line that holds it, for any of the keys that are repeated
MaxPassEntries == 4

EntriesInit ==
    \E text \in Texts(MaxPassEntries, EntryLines) \ {<<>>}, keys \in BOOLEAN :
      \E reported \in SUBSET {m.arg : m \in RepeatedKeys(text)} :
        Filtering(text, {m \in RepeatedKeys(text) : m.arg \in reported}, FALSE, keys, FALSE)

\* Import statements that span lines, or never end: texts in which the
\* analyzer reports unused imports only
MaxPendingLines == 3
MaxPendingMessages == 2

PendingLines ==
    { <<"from", " ", "m", " ", "import", " ", "(", "a", ",", "\n">>,
      <<" ", " ", "b", ")", "\n">>,
      <<"import", " ", "a", ",", " ", "\\", "\n">>,
      <<" ", " ", "b", "\n">>,
      <<"import", " ", "a", ";", " ", "x", " ", "=", " ", "\"", "(", "\"", "\n">>,
      <<"x", " ", "=", " ", "1", "\n">> }

PendingMessages(n) ==
    {Message("UnusedImport", l, name) : l \in 1..n, name \in {<<"a">>, <<"m", ".", "a">>}}

PendingInit ==
    \E text \in Texts(MaxPendingLines, PendingLines) \ {<<>>} :
      \E messages \in UpTo(MaxPendingMessages, PendingMessages(Len(splitlines(text)))) :
        Filtering(text, messages, FALSE, FALSE, FALSE)

\* Star imports: texts of star imports and of uses of a name, under an
\* analyzer that may report each star import of a line and each name
MaxStarLines == 2
MaxStarMessages == 3

StarLines ==
    { <<"from", " ", "m", " ", "import", " ", "*", "\n">>,
      <<"from", " ", "m", " ", "import", " ", "*", ";", " ",
        "from", " ", "n", " ", "import", " ", "*", "\n">>,
      <<"from", " ", "m", " ", "import", " ", "*", " ", "#", " ", "c", "\n">>,
      <<"x", " ", "=", " ", "a", "\n">>,
      <<"del", " ", "x", "\n">> }

\* the modules a line imports everything from
StarImportsOf(line) ==
    {line[i + 2] : i \in {j \in 1..(Len(line) - 6) :
                             /\ line[j] = "from"
                             /\ line[j + 4] = "import"
                             /\ line[j + 6] = "*"}}

\* one star-import message for each star import of a line, one undefined-name
\* message for each name, an unused-variable message for any line
StarMessages(lines) ==
    UNION {{Message("ImportStarUsed", l, <<module>>) : module \in StarImportsOf(lines[l])} : l \in 1..Len(lines)}
    \cup {Message("ImportStarUsage", Len(lines), <<name>>) : name \in {"a", "b"}}
    \cup {Message("UnusedVariable", l, <<>>) : l \in 1..Len(lines)}

StarInit ==
    \E text \in Texts(MaxStarLines, StarLines) \ {<<>>}, star, variables \in BOOLEAN :
      \E messages \in UpTo(MaxStarMessages, StarMessages(splitlines(text))) :
        Filtering(text, messages, star, FALSE, variables)

\* Unused variables: texts of assignments and of except clauses, under an
\* analyzer that may report an unused variable on each line
MaxVariableLines == 1

Targets == { <<"x">>, <<"x", ",", " ", "y">>, <<"x", " ", "=", " ", "y">> }

Values ==
    { <<"1">>, <<"a">>, <<"dict", "(", ")">>, <<"f", "(", ")">>, <<"a", ".", "b">>,
      <<"f", "(">>, <<"1", ";", " ", "y">>, <<"a", " ", "\\">> }

Handlers ==
    { <<"except", " ", "x", " ", "as", " ", "e", ":">>,
      <<"except", " ", "(", "x", ",", " ", "y", ")", " ", "as", " ", "e", ":">>,
      <<"except", " ", "a", ".", "x", " ", "as", " ", "e", ":">>,
      <<"except", " ", "x", ":">> }

VariableLines ==
    {indent \o target \o assign \o value \o ending : indent \in {<<>>, <<" ">>}, target \in Targets, assign \in {<<" ", "=", " ">>, <<"=">>}, value \in Values, ending \in LineEndings}
    \cup {indent \o handler \o ending : indent \in {<<>>, <<" ">>}, handler \in Handlers, ending \in LineEndings}

VariablesInit ==
    \E text \in Texts(MaxVariableLines, VariableLines) \ {<<>>}, variables \in BOOLEAN :
      \E messages \in SUBSET {Message("UnusedVariable", l, <<>>) : l \in 1..Len(splitlines(text))} :
        Filtering(text, messages, FALSE, FALSE, variables)

vars == <<ml_vars, p_vars, d_vars, f_vars>>

SpecKeys == KInit /\ [][KNext]_vars

SpecML == MLInit /\ [][MLNext]_vars

SpecOver == OverInit /\ [][MLNext]_vars

SpecLine == LineInit /\ [][MLStart]_vars

SpecPrevious == PreviousInit /\ [][MLNext]_vars

SpecPass == PInit /\ [][PNext]_vars

Spec == DInit /\ [][DNext]_vars

\* The driver on the shorter texts, under weak fairness: fix_code is one
\* sequential call, so a step that can be taken is taken.
MaxLoopLines == 1

LoopInit ==
    \E text \in Texts(MaxLoopLines, SourceLines), star, keys, variables \in BOOLEAN :
        Called(text, star, keys, variables)

FairSpec == LoopInit /\ [][DNext]_vars /\ WF_vars(DNext)

SpecFilter == FInit /\ [][FNext]_vars

SpecStar == StarInit /\ [][FNext]_vars

SpecPending == PendingInit /\ [][FNext]_vars

SpecEntries == EntriesInit /\ [][FNext]_vars

SpecVariables == VariablesInit /\ [][FNext]_vars

-----------------------------------------------------------------------------
(* Properties of the rewrite of one flagged import statement *)

ConsumedText == Join(ml_consumed)

\* a FilterMultilineImport was built for the statement
Accumulated == ml_fix.accumulator /= <<>>

\* the imported names of the statement, in order, and those reported unused
StatementNames == SelectSeq(ConsumedText, LAMBDA x : x \in Names)
IsUnused(n) == FullName(ConsumedText, n) \in ml_remove
SurvivingNames == SelectSeq(StatementNames, LAMBDA x : ~IsUnused(x))

GaveUpOn == \E i \in 1..Len(ml_consumed) :
                \E ch \in {";", ":", "#"} : Contains(ml_consumed[i], ch)

\* C5 (as claimed): a completed accumulation that saw `;`, `:` or `#` in a
\* consumed line emits exactly the concatenation of the consumed lines.
GiveUpFidelity ==
    (ml_pc = "done" /\ Accumulated /\ GaveUpOn) => ml_result = ConsumedText

\* the statement was rewritten as a whole by one of the three paths of C6
SingleLineRewrite ==
    /\ ~Accumulated
    /\ Len(ml_consumed) = 1
    /\ ~Contains(ml_consumed[1], "#")
    /\ \/ ~Contains(ml_consumed[1], ",")
       \/ startswith(lstrip(ml_consumed[1], bytes_wsp), <<"from">>)

CompletedFix == Accumulated /\ ~ml_fix.give_up

\* C6: when every name of the statement is unused, the statement becomes
\* its own leading whitespace + `pass` + the trailing whitespace/line ending
\* of its last physical line.
AllUnusedBecomesPass ==
    (/\ ml_pc = "done"
     /\ SingleLineRewrite \/ CompletedFix
     /\ \A i \in 1..Len(StatementNames) : IsUnused(StatementNames[i]))
    => ml_result = get_indentation(ml_consumed[1]) \o <<"pass">>
                   \o get_line_ending(ml_consumed[Len(ml_consumed)])

AllUnusedWitness ==
    /\ ml_pc = "done"
    /\ CompletedFix
    /\ Len(ml_consumed) >= 2
    /\ Len(StatementNames) >= 2
    /\ \A i \in 1..Len(StatementNames) : IsUnused(StatementNames[i])
    /\ get_indentation(ml_consumed[1]) /= <<>>
    /\ ml_result = <<" ", "pass", "\n">>

\* the layout of a text: every imported name replaced by a blank
Mask(text) == [i \in 1..Len(text) |-> IF text[i] \in Names THEN "_" ELSE text[i]]

Segments == SEGMENT_RE_findall(Join(ml_fix.accumulator))

\* segments whose name is not in the removal set (a segment holding only
\* punctuation counts: it names nothing that could be removed)
SurvivorCount ==
    Cardinality({i \in 1..Len(Segments) :
        \A j \in 1..Len(Segments[i]) :
            Segments[i][j] \in Names => ~IsUnused(Segments[i][j])})

\* punctuation of the first k-1 segments followed by that of the last one
ClaimedLayout ==
    Mask(ml_fix.from_ \o <<"import", " ">>
         \o Join(SubSeq(Segments, 1, SurvivorCount - 1))
         \o Segments[Len(Segments)])

PartialRemoval ==
    /\ ml_pc = "done"
    /\ CompletedFix
    /\ Len(SurvivingNames) < Len(StatementNames)
    /\ SurvivingNames /= <<>>

ListsSurvivors ==
    SelectSeq(ml_result, LAMBDA x : x \in Names) = SurvivingNames

Collapses ==
    /\ ml_fix.parenthesized
    /\ \E ch \in {"(", ")"} : ~Contains(ClaimedLayout, ch)

CollapsedLayout ==
    Mask(ml_fix.from_ \o <<"import", " ">>)
    \o strip(SubSeq(ClaimedLayout, Len(ml_fix.from_) + 3, Len(ClaimedLayout)),
             bytes_wsp \cup {"(", ")"})
    \o get_line_ending(ConsumedText)

-----------------------------------------------------------------------------
(* Properties of the pruner, stated on the physical lines of its input *)

PLines == splitlines(p_source)

Col(i) == Len(get_indentation(PLines[i]))

Body(i) == strip(PLines[i], bytes_wsp)

IsBlank(i) == Body(i) = <<>>

IsComment(i) == ~IsBlank(i) /\ Body(i)[1] = "#"

IsPassOnly(i) == Body(i) = <<"pass">>

\* line i goes on the logical line of line i - 1
Continues(i) ==
    /\ i > 1
    /\ ~IsBlank(i - 1)
    /\ ~IsComment(i - 1)
    /\ endswith(Body(i - 1), <<"\\">>)

\* line i is the first physical line of a statement
StartsStatement(i) == ~IsBlank(i) /\ ~IsComment(i) /\ ~Continues(i)

StatementRows == {i \in 1..Len(PLines) : StartsStatement(i)}

\* the first physical line of the statement line i belongs to
RECURSIVE LogicalStart(_)
LogicalStart(i) == IF Continues(i) THEN LogicalStart(i - 1) ELSE i

\* the indentation of the statement before line i; 0 at the top of the text
PreviousCol(i) ==
    LET before == {j \in StatementRows : j < i}
    IN IF before = {} THEN 0
       ELSE Col(CHOOSE j \in before : \A k \in before : k <= j)

\* line i is the first statement of an indented block
OpensBlock(i) == StartsStatement(i) /\ Col(i) > PreviousCol(i)

\* the statements of the block the statement at line s sits in
Block(s) ==
    {j \in StatementRows :
        /\ Col(j) = Col(s)
        /\ \A k \in StatementRows :
              ((j < k /\ k < s) \/ (s < k /\ k < j)) => Col(k) >= Col(s)}

Tokenizable == ~generate_tokens(p_source).error

PrunerDone == p_pc = "done" /\ Tokenizable

\* C9: for tokenizable text, every removed `pass` line that sits in an
\* indented block leaves at least one statement of that block in the output.
NeverEmptiesBlock ==
    PrunerDone =>
        \A r \in p_marked :
            Col(LogicalStart(r)) > 0 =>
                \E j \in Block(LogicalStart(r)) : j \notin p_marked

NeverEmptiesBlockWitness ==
    /\ PrunerDone
    /\ \E r \in p_marked : StartsStatement(r) /\ Col(r) > 0
    /\ \E i \in StatementRows : IsPassOnly(i) /\ OpensBlock(i) /\ i \notin p_marked

\* the lines whose row is not in `rows`, in order
RECURSIVE WithoutRows(_, _)
WithoutRows(lines, rows) ==
    IF lines = <<>> THEN <<>>
    ELSE LET n == Len(lines)
             front == WithoutRows(SubSeq(lines, 1, n - 1), rows)
         IN IF n \in rows THEN front ELSE Append(front, lines[n])

\* rule (a): the line neither opens an indented block nor continues a line
\* that ends in a backslash
NotFirstOfBlock(i) == ~OpensBlock(i) /\ ~Continues(i)

SameIndentation(i, j) == get_indentation(PLines[i]) = get_indentation(PLines[j])

\* rule (b) as claimed: the next physical line is a statement other than
\* `pass` at the same indentation
NextIsOtherStatement(i) ==
    /\ i < Len(PLines)
    /\ ~IsBlank(i + 1)
    /\ ~IsComment(i + 1)
    /\ Body(i + 1)[1] /= "pass"
    /\ SameIndentation(i, i + 1)

\* line i carries a name, number or string token
HasAtom(i) ==
    \E k \in 1..Len(PLines[i]) :
        /\ TokenType(PLines[i][k]) \in ATOMS
        /\ \A h \in 1..(k - 1) : PLines[i][h] /= "#"

\* rule (b) as the code has it: the next physical line has the same
\* indentation, carries a name, number or string token and is more than `pass`
NextHasAtom(i) ==
    /\ i < Len(PLines)
    /\ HasAtom(i + 1)
    /\ ~IsPassOnly(i + 1)
    /\ SameIndentation(i, i + 1)

ClaimedRemoved ==
    {i \in 1..Len(PLines) :
        IsPassOnly(i) /\ (NotFirstOfBlock(i) \/ NextIsOtherStatement(i))}

AmendedRemoved ==
    {i \in 1..Len(PLines) :
        IsPassOnly(i) /\ (NotFirstOfBlock(i) \/ NextHasAtom(i))}

\* C10 (as claimed): in one pass over tokenizable text a line that is solely
\* `pass` is removed exactly when it is not the first statement of an indented
\* block, or the next physical line is a non-pass statement at the same
\* indentation; every other line is emitted unchanged and in order.
RemovedLines ==
    PrunerDone =>
        /\ p_marked = ClaimedRemoved
        /\ p_out = Join(WithoutRows(PLines, ClaimedRemoved))

\* C10 (amended): as above, with the second rule asking the next physical
\* line to carry a name, number or string token and to be more than `pass`.
RemovedLinesAmended ==
    PrunerDone =>
        /\ p_marked = AmendedRemoved
        /\ p_out = Join(WithoutRows(PLines, AmendedRemoved))

RemovedLinesWitness ==
    /\ PrunerDone
    /\ \E i \in 1..Len(PLines) :
          /\ IsPassOnly(i)
          /\ OpensBlock(i)
          /\ NextIsOtherStatement(i)
          /\ ~NextHasAtom(i)
          /\ i \notin p_marked
    /\ \E i \in p_marked : NotFirstOfBlock(i)

-----------------------------------------------------------------------------
(* Properties of the driver *)

Returned == d_pc = "return" /\ d_run = 1

\* C1 (as claimed): when no analyzer call reports a message, fix_code
\* returns its input byte for byte, under every configuration.
NoDiagnosticsIdentity ==
    (Returned /\ d_quiet) => d_filtered_source = d_given.source

\* the pruner applied until it changes nothing
RECURSIVE PrunerFixpoint(_)
PrunerFixpoint(text) ==
    LET pruned == filter_useless_pass(text)
    IN IF pruned = text THEN text ELSE PrunerFixpoint(pruned)

\* C1 (amended): when no analyzer call reports a message, fix_code returns
\* its input with the pruner applied until it changes nothing; the input byte
\* for byte exactly when the pruner marks none of its lines.
NoDiagnosticsPruned ==
    (Returned /\ d_quiet) =>
        /\ d_filtered_source = PrunerFixpoint(d_given.source)
        /\ (d_filtered_source = d_given.source
               <=> useless_pass_line_numbers(d_given.source).rows = {})

NoDiagnosticsWitness ==
    /\ Returned
    /\ d_quiet
    /\ d_filtered_source /= d_given.source
    /\ d_filtered_source /= <<>>

\* C2: with an analyzer that answers a text the same way each time, fix_code
\* called on the text it returned returns that text.
Idempotent ==
    (d_pc = "return" /\ d_run = 2) => d_filtered_source = d_first

\* C3: for every text and configuration the loop of fix_code ends: some pass
\* returns its own input and fix_code returns.
Terminates == <>(d_pc = "return")

\* C4: fix_code never fails: whatever the analyzer does, no exception leaves
\* fix_code.
NeverRaises == d_pc /= "raise"

-----------------------------------------------------------------------------
(* Properties of the driver under the analyzer of repeated keys *)

\* a one-line entry `key: value,` with nothing after the comma
SimpleEntry(line) ==
    /\ Len(line) = 6
    /\ EntryKey(line) /= <<>>
    /\ line[3] = " "
    /\ IsWord(line[4])
    /\ line[5] = ","
    /\ line[6] = "\n"

\* the key is written on two or more entries of the text, all of them simple
CleanGroup(text, key) ==
    /\ Cardinality(EntryRows(text, key)) >= 2
    /\ \A i \in EntryRows(text, key) : SimpleEntry(splitlines(text)[i])

LastRow(text, key) ==
    CHOOSE i \in EntryRows(text, key) : \A j \in EntryRows(text, key) : j <= i

\* C8: with remove_duplicate_keys on and every repeated key reported on every
\* call, the text fix_code returns keeps, of each clean group, exactly the
\* entry that stood on the group's highest line.
LastWins ==
    Returned =>
        \A key \in {<<"1">>, <<"2">>} :
            CleanGroup(d_given.source, key) =>
                SelectSeq(splitlines(d_filtered_source),
                          LAMBDA line : EntryKey(line) = key)
                    = <<splitlines(d_given.source)[LastRow(d_given.source, key)]>>

LastWinsWitness ==
    /\ Returned
    /\ \E key \in {<<"1">>, <<"2">>} :
          /\ CleanGroup(d_given.source, key)
          /\ Cardinality(EntryRows(d_given.source, key)) = 3
          /\ splitlines(d_given.source)[1] /= splitlines(d_given.source)[3]
    /\ Len(splitlines(d_filtered_source)) = 1

-----------------------------------------------------------------------------
(* One pass of the dispatcher, read back from its history: f_results[i] is   *)
(* the value `result` took on line i.                                        *)

FLines == splitlines(f_given.source)

\* the lines the loop has been through
Seen == 1..Len(f_results)

\* the loop's locals on entry to line i
Before(i) == [result |-> IF i = 1 THEN LoopStart.result ELSE f_results[i - 1], previous_line |-> IF i = 1 THEN <<>> ELSE FLines[i - 1], yielded |-> <<>>]

\* line i was fed to a pending accumulator
Consumed(i) == Before(i).result.kind = "pending"

Reported(type) == {m \in f_given.messages : m.type = type}

ReportedOn(type, i) == {m \in Reported(type) : m.lineno = i}

\* the names reported as possibly undefined, ascending
AscendingNames ==
    LET names == {m.arg : m \in Reported("ImportStarUsage")}
    IN CHOOSE q \in [1..Cardinality(names) -> names] :
           \A i, j \in DOMAIN q : i < j => BytesLess(q[i], q[j])

\* what line i gives when no line is marked as a star import
WithoutExpansion(i) == Dispatch(Before(i), i, FLines[i], [f_marks EXCEPT !.marked_star_import_line_numbers = {}])

\* the situation in which a star import is to be expanded
ExpansionDue(i) ==
    /\ f_given.expand_star_imports
    /\ ~Contains(f_given.source, "__all__")
    /\ ~Contains(f_given.source, "del")
    /\ Cardinality(Reported("ImportStarUsed")) = 1
    /\ ReportedOn("ImportStarUsed", i) /= {}
    /\ Reported("ImportStarUsage") /= {}
    /\ ~Contains(FLines[i], "#")
    /\ ReportedOn("UnusedImport", i) = {}
    /\ ~(f_given.remove_unused_variables /\ ReportedOn("UnusedVariable", i) /= {})
    /\ i \notin f_marks.marked_key_line_numbers

\* C11: with expand_star_imports on, no __all__ and no del in the text,
\* exactly one star-import diagnostic and at least one undefined name, the
\* flagged line (without `#` and without a diagnostic of higher priority) is
\* emitted with `*` replaced by the undefined names, sorted ascending and
\* joined by ", "; in every other situation star-import expansion changes no
\* line.
StarExpansion ==
    \A i \in Seen :
        IF ExpansionDue(i)
        THEN f_results[i] = Done(replace(FLines[i], <<"*">>, JoinWith(<<",", " ">>, AscendingNames)))
        ELSE f_results[i] = WithoutExpansion(i)

\* the `*` of a text
Stars(text) == SelectSeq(text, LAMBDA x : x = "*")

\* C12: when more than one star-import diagnostic is reported, whatever
\* their line numbers, or no undefined name is reported, the pass replaces
\* no `*`.
ExpansionDisabled ==
    (/\ f_pc = "done"
     /\ \/ Cardinality(Reported("ImportStarUsed")) > 1
        \/ Reported("ImportStarUsage") = {})
    => Stars(f_out) = Stars(f_given.source)

-----------------------------------------------------------------------------
(* The driver on a text holding `nonlocal`.                                  *)

\* the text the latest iteration of the first call produced
Produced == IF d_pc = "return" THEN d_filtered_source ELSE d_source

\* an iteration of the first call has run on a text given with `nonlocal`
NonlocalIteration ==
    /\ d_run = 1
    /\ d_pc \in {"loop", "return"}
    /\ d_last.called
    /\ Contains(d_given.source, "nonlocal")

\* C13: when the text given to fix_code holds `nonlocal`, every iteration
\* produces what the pass produces with remove_unused_variables off and the
\* other two options as given: no unused variable is rewritten, whatever the
\* option says, while unused imports, duplicate keys and star imports are
\* rewritten as usual.
NonlocalKeepsVariables ==
    NonlocalIteration =>
        \E it \in {Iteration(d_last.source, d_last.outcome, d_given.expand_star_imports, d_given.remove_duplicate_keys, FALSE)} :
            it.error = "" /\ it.value = Produced

\* an assignment reported as unused, in a text with `nonlocal`, is returned
\* as it stood although remove_unused_variables was asked for
NonlocalKeepsVariablesWitness ==
    /\ NonlocalIteration
    /\ d_pc = "return"
    /\ d_given.remove_unused_variables
    /\ d_filtered_source = d_given.source
    /\ \E m \in d_last.outcome.messages :
          /\ m.type = "UnusedVariable"
          /\ \E line \in {splitlines(d_given.source)[m.lineno]} :
                ~Contains(line, "#") /\ filter_unused_variable(line) /= line

-----------------------------------------------------------------------------
(* The options of a pass.                                                    *)

\* the kinds of message whose rewrite is switched off
DisabledKinds ==
    (IF f_given.remove_unused_variables THEN {} ELSE {"UnusedVariable"})
    \cup (IF f_given.remove_duplicate_keys THEN {} ELSE {"MultiValueRepeatedKeyLiteral"})
    \cup (IF f_given.expand_star_imports THEN {} ELSE {"ImportStarUsed", "ImportStarUsage"})

OnLine(i) == {m \in f_given.messages : m.lineno = i}

\* line i carries messages, all of kinds that are switched off
OnlyDisabled(i) == OnLine(i) /= {} /\ \A m \in OnLine(i) : m.type \in DisabledKinds

\* what the pass marks when the messages of the switched-off kinds are not
\* reported at all
MarksOfEnabled == Marks(f_given.source, {m \in f_given.messages : m.type \notin DisabledKinds}, f_given.expand_star_imports, f_given.remove_duplicate_keys, f_given.remove_unused_variables)

\* no line's result depends on a message of a switched-off kind
DisabledIgnored ==
    \A i \in Seen : f_results[i] = Dispatch(Before(i), i, FLines[i], MarksOfEnabled)

\* a line flagged as an unused import, dispatched on its own and without
\* `#`, goes to the import rewrite under every configuration
ImportsAlways ==
    \A i \in Seen :
        (/\ ~Consumed(i)
         /\ ~Contains(FLines[i], "#")
         /\ ReportedOn("UnusedImport", i) /= {})
        => f_results[i] = filter_unused_import(FLines[i], {m.arg : m \in ReportedOn("UnusedImport", i)}, Before(i).previous_line)

\* C14 (as claimed): a rewrite whose option is off is never applied whatever
\* is reported, every line carrying only messages of such rewrites is emitted
\* unchanged, and the unused-import rewrite is applied under every
\* configuration.
FlagGating ==
    /\ DisabledIgnored
    /\ ImportsAlways
    /\ \A i \in Seen : OnlyDisabled(i) => f_results[i] = Done(FLines[i])

\* C14 (amended): as claimed, for the lines that are dispatched on their own;
\* a line fed to a pending accumulator belongs to that accumulator's result
\* whatever it carries.
FlagGatingAmended ==
    /\ DisabledIgnored
    /\ ImportsAlways
    /\ \A i \in Seen : (OnlyDisabled(i) /\ ~Consumed(i)) => f_results[i] = Done(FLines[i])

\* a line an enabled option would rewrite is emitted as it stands, the
\* option being off, while an unused import of the same text is rewritten
FlagGatingWitness ==
    /\ f_pc = "done"
    /\ \E i \in Seen :
          /\ OnlyDisabled(i)
          /\ ~Consumed(i)
          /\ ~Contains(FLines[i], "#")
          /\ Dispatch(Before(i), i, FLines[i], Marks(f_given.source, f_given.messages, TRUE, TRUE, TRUE)) /= Done(FLines[i])
    /\ \E i \in Seen :
          /\ ReportedOn("UnusedImport", i) /= {}
          /\ ~Consumed(i)
          /\ f_results[i].kind = "pending"

-----------------------------------------------------------------------------
(* Accumulators in a pass.                                                   *)

\* the pass is over and the accumulator of its final line is still pending
PendingAtEnd ==
    /\ f_pc = "done"
    /\ f_results /= <<>>
    /\ f_results[Len(f_results)].kind = "pending"

\* the line that opened the accumulation line i belongs to
RECURSIVE Opening(_)
Opening(i) == IF Consumed(i) THEN Opening(i - 1) ELSE i

\* the text of lines from..to
RECURSIVE LinesText(_, _)
LinesText(from, to) == IF from > to THEN <<>> ELSE FLines[from] \o LinesText(from + 1, to)

IsSuffix(tail, text) ==
    /\ Len(tail) <= Len(text)
    /\ SubSeq(text, Len(text) - Len(tail) + 1, Len(text)) = tail

\* C15: at the end of a pass no line has been swallowed: when the text ends
\* while an accumulator is still pending, the lines it consumed are emitted
\* all the same.
NothingSwallowed ==
    PendingAtEnd => IsSuffix(LinesText(Opening(Len(f_results)), Len(f_results)), f_out)

-----------------------------------------------------------------------------
(* The branch that handles a line.                                           *)

\* the first branch, in the order claimed, whose condition line i meets
Branch(i) ==
    IF Consumed(i) THEN "accumulator"
    ELSE IF Contains(FLines[i], "#") THEN "comment"
    ELSE IF ReportedOn("UnusedImport", i) /= {} THEN "import"
    ELSE IF f_given.remove_unused_variables /\ ReportedOn("UnusedVariable", i) /= {} THEN "variable"
    ELSE IF i \in f_marks.marked_key_line_numbers THEN "key"
    ELSE IF i \in f_marks.marked_star_import_line_numbers THEN "star"
    ELSE "plain"

\* what each branch makes of line i
BranchResult(i, branch) ==
    CASE branch = "accumulator" -> FilterMultilineImport_call(Before(i).result.value, FLines[i])
      [] branch = "import" -> filter_unused_import(FLines[i], {m.arg : m \in ReportedOn("UnusedImport", i)}, Before(i).previous_line)
      [] branch = "variable" -> Done(filter_unused_variable(FLines[i]))
      [] branch = "key" -> Done(filter_duplicate_key(FLines[i], i, f_marks.marked_key_line_numbers))
      [] branch = "star" -> Done(filter_star_import(FLines[i], f_marks.undefined_names))
      [] OTHER -> Done(FLines[i])

\* C16: every line is handled by exactly one branch, the first that applies
\* in the order: pending accumulator, comment, unused import, unused
\* variable, duplicate key, star import, plain.  So a line fed to a pending
\* accumulator goes to no other rewrite whatever is reported about it, and a
\* line nothing is reported about, outside any accumulation, is emitted as it
\* stands.
BranchPriority ==
    \A i \in Seen :
        /\ f_results[i] = BranchResult(i, Branch(i))
        /\ (OnLine(i) = {} /\ ~Consumed(i)) => f_results[i] = Done(FLines[i])

\* a line reported both as an unused import and as an unused variable has
\* gone to the import rewrite, and a reported line has been fed to a pending
\* accumulator
BranchPriorityWitness ==
    /\ \E i \in Seen :
          /\ Branch(i) = "import"
          /\ f_given.remove_unused_variables
          /\ ReportedOn("UnusedVariable", i) /= {}
          /\ f_results[i] /= Done(filter_unused_variable(FLines[i]))
    /\ \E i \in Seen :
          /\ Consumed(i)
          /\ OnLine(i) /= {}
          /\ f_results[i] /= Dispatch(LoopStart, i, FLines[i], f_marks)

-----------------------------------------------------------------------------
(* Lines with a comment.                                                     *)

\* the results up to line i that were bytes, hence yielded
YieldedUpTo(i) == {j \in 1..i : f_results[j].kind = "bytes"}

\* C17: a line holding `#`, dispatched while no accumulator is pending, is
\* emitted byte for byte whatever is reported about it, and opens no
\* accumulation.
CommentPassthrough ==
    \A i \in Seen :
        (~Consumed(i) /\ Contains(FLines[i], "#"))
        => /\ f_results[i] = Done(FLines[i])
           /\ f_st.yielded[Cardinality(YieldedUpTo(i))] = FLines[i]

\* an import with a comment, reported as unused, has come out as it stood
CommentPassthroughWitness ==
    /\ f_pc = "done"
    /\ \E i \in Seen :
          /\ ~Consumed(i)
          /\ Contains(FLines[i], "#")
          /\ ReportedOn("UnusedImport", i) /= {}
          /\ filter_unused_import(FLines[i], {m.arg : m \in ReportedOn("UnusedImport", i)}, Before(i).previous_line) /= Done(FLines[i])

-----------------------------------------------------------------------------
(* Accumulator atomicity.                                                    *)

\* the accumulator line i was fed to, with that line taken in
Fed(i) == accumulate(Before(i).result.value, FLines[i])

\* the accumulator holds the rest of its opening line, then every line
\* consumed since
HoldsAllConsumed(i) ==
    /\ IsSuffix(Head(Fed(i).accumulator), FLines[Opening(i)])
    /\ Join(Tail(Fed(i).accumulator)) = LinesText(Opening(i) + 1, i)

\* the one result that stands for the whole statement
Replacement(i) ==
    IF Fed(i).give_up THEN Fed(i).from_ \o import_ \o Join(Fed(i).accumulator)
    ELSE fix(Fed(i), Fed(i).accumulator)

\* C18: a pending accumulator adds nothing to the output; on the first line
\* it consumes on which its completion test holds, one result is emitted for
\* all the lines consumed since it was created; after that no accumulator is
\* pending and the next line is dispatched in the normal way.
Atomicity ==
    /\ Len(f_st.yielded) = Cardinality(YieldedUpTo(Len(f_results)))
    /\ \A i \in Seen :
          Consumed(i) =>
             /\ HoldsAllConsumed(i)
             /\ IF is_over(Fed(i), FLines[i])
                THEN /\ f_results[i] = Done(Replacement(i))
                     /\ f_st.yielded[Cardinality(YieldedUpTo(i))] = Replacement(i)
                     /\ Cardinality(YieldedUpTo(i)) = Cardinality(YieldedUpTo(Opening(i) - 1)) + 1
                     /\ (i + 1 \in Seen) =>
                           /\ Branch(i + 1) /= "accumulator"
                           /\ f_results[i + 1] = BranchResult(i + 1, Branch(i + 1))
                ELSE /\ f_results[i].kind = "pending"
                     /\ YieldedUpTo(i) = YieldedUpTo(Opening(i) - 1)

\* a statement of two lines has been replaced by one result, and the line
\* after it rewritten on its own
AtomicityWitness ==
    /\ f_pc = "done"
    /\ Len(f_results) = 3
    /\ f_results[1].kind = "pending"
    /\ f_results[2].kind = "bytes"
    /\ f_results[2].value /= FLines[1] \o FLines[2]
    /\ ReportedOn("UnusedImport", 3) /= {}
    /\ f_results[3] /= Done(FLines[3])
    /\ Len(f_st.yielded) = 2

-----------------------------------------------------------------------------
(* Duplicate keys in a pass.                                                 *)

\* the keys reported, and for each the lines it is reported on
ReportedKeys == {m.arg : m \in Reported("MultiValueRepeatedKeyLiteral")}

GroupRows(key) == {m.lineno : m \in {x \in Reported("MultiValueRepeatedKeyLiteral") : x.arg = key}}

\* every line of the key's group is a one-line entry of that key
Eligible(key) == \A i \in GroupRows(key) : dict_entry_has_key(FLines[i], key[1])

HighestRow(key) == CHOOSE n \in GroupRows(key) : \A k \in GroupRows(key) : n >= k

EligibleRows == UNION {GroupRows(key) : key \in {k \in ReportedKeys : Eligible(k)}}

AllOrNothing ==
    (f_given.remove_duplicate_keys /\ f_pc \in {"loop", "done"}) =>
        f_marks.marked_key_line_numbers = EligibleRows

\* a group with a line that fails the test and a line that passes it is
\* left unmarked, next to a group that is marked
AllOrNothingWitness ==
    /\ f_pc = "done"
    /\ f_given.remove_duplicate_keys
    /\ f_marks.marked_key_line_numbers /= {}
    /\ \E key \in ReportedKeys :
          /\ ~Eligible(key)
          /\ \E i \in GroupRows(key) : dict_entry_has_key(FLines[i], key[1])
          /\ GroupRows(key) \cap f_marks.marked_key_line_numbers = {}

-----------------------------------------------------------------------------
(* More properties of one flagged import statement.                          *)

NothingUnused == \A i \in 1..Len(StatementNames) : ~IsUnused(StatementNames[i])

\* C21: a completed accumulation that did not give up and none of whose
\* names is in the removal set emits exactly the concatenation of the lines
\* it consumed.
NothingRemovedIdentity ==
    (ml_pc = "done" /\ CompletedFix /\ NothingUnused) => ml_result = ConsumedText

\* the text a FilterMultilineImport has accumulated
AccumulatedText == Join(ml_fix.accumulator)

\* C22: the segments of an accumulated import list, joined in order, are
\* that list byte for byte.
SegmentsLossless ==
    Accumulated => Join(SEGMENT_RE_findall(AccumulatedText)) = AccumulatedText

\* a completed statement of two lines, cut in two segments or more
SegmentsLosslessWitness ==
    /\ ml_pc = "done"
    /\ CompletedFix
    /\ Len(ml_consumed) >= 2
    /\ Len(SEGMENT_RE_findall(AccumulatedText)) >= 2
    /\ ml_result /= ConsumedText

\* a parenthesized accumulation that completed without giving up
CompletedParenthesized == ml_pc = "done" /\ CompletedFix /\ ml_fix.parenthesized

\* C23: the statement a completed parenthesized accumulation emits holds
\* both `(` and `)` or neither of them.
ParenthesesMatched ==
    CompletedParenthesized => (Contains(ml_result, "(") <=> Contains(ml_result, ")"))

\* a parenthesized statement of two names has lost one of them and come out
\* flat, with its line ending
ParenthesesMatchedWitness ==
    /\ CompletedParenthesized
    /\ Len(StatementNames) = 2
    /\ Len(SurvivingNames) = 1
    /\ ~Contains(ml_result, "(")
    /\ ~Contains(ml_result, ")")
    /\ ml_result = ml_fix.from_ \o import_ \o SurvivingNames \o get_line_ending(ConsumedText)
    /\ get_line_ending(ConsumedText) /= <<>>

-----------------------------------------------------------------------------
(* The completion test of the accumulator.                                   *)

\* the text the latest completion test looked at: the rest of the first
\* line after `import` at creation, the line just appended afterwards
Tested ==
    IF Len(ml_consumed) = 1 THEN ml_fix.accumulator[1]
    ELSE ml_consumed[Len(ml_consumed)]

\* the text holds `ch` with no `#` before it
HoldsBeforeComment(text, ch) ==
    \E i \in 1..Len(text) : text[i] = ch /\ \A j \in 1..(i - 1) : text[j] /= "#"

\* C24: completion is tested on the line just appended (at creation, on
\* what follows `import` on the first line): a parenthesized accumulator is
\* complete exactly when that text holds a `)` with no `#` before it, any
\* other exactly when it holds no backslash with no `#` before it.
CompletionTest ==
    (Accumulated /\ ml_pc \in {"pending", "done"}) =>
        (ml_pc = "done" <=>
            IF Contains(ml_consumed[1], "(")
            THEN HoldsBeforeComment(Tested, ")")
            ELSE ~HoldsBeforeComment(Tested, "\\"))

\* a parenthesized statement stayed open on a line whose only `)` is in a
\* comment and ended on the line after it
CompletionTestWitness ==
    /\ ml_pc = "done"
    /\ Accumulated
    /\ Len(ml_consumed) = 3
    /\ Contains(ml_consumed[1], "(")
    /\ Contains(ml_consumed[2], ")")
    /\ ~HoldsBeforeComment(ml_consumed[2], ")")

-----------------------------------------------------------------------------
(* When the accumulator gives up.                                            *)

\* the line before the statement ends in a continuation backslash
PreviousContinues == endswith(rstrip(ml_prev, bytes_wsp), <<"\\">>)

EmittedNames == SelectSeq(ml_result, LAMBDA x : x \in Names)

\* C25: an accumulated statement with no `;`, `:` or `#` in its consumed
\* lines, after a line that does not end in a continuation backslash, comes
\* out without any of its names that are in the removal set.
NoOverGiveUp ==
    (ml_pc = "done" /\ Accumulated /\ ~GaveUpOn /\ ~PreviousContinues) =>
        \A i \in 1..Len(StatementNames) :
            IsUnused(StatementNames[i]) =>
                \A j \in 1..Len(EmittedNames) : EmittedNames[j] /= StatementNames[i]

-----------------------------------------------------------------------------
(* Statements of one physical line.                                          *)

Line == ml_consumed[1]

SingleLine(keyword) ==
    /\ ml_pc = "done"
    /\ Len(ml_consumed) = 1
    /\ ~Accumulated
    /\ startswith(lstrip(Line, bytes_wsp), <<keyword>>)

\* the line up to and with its `import`
ThroughImport == SubSeq(Line, 1, find(Line, "import") + 1)

NameList(names) == JoinWith(<<",", " ">>, sorted([i \in 1..Len(names) |-> <<names[i]>>]))

\* C26: a flagged `from X import a, b, c` of one line keeps exactly the
\* names whose full name X.name is not in the removal set, sorted and joined
\* by `, ` after the text through `import`, with the line ending of the
\* line; when no name is left it is the indentation + `pass` + line ending.
FromImportRewrite ==
    SingleLine("from") =>
        ml_result = IF SurvivingNames = <<>>
                    THEN get_indentation(Line) \o pass_ \o get_line_ending(Line)
                    ELSE ThroughImport \o <<" ">> \o NameList(SurvivingNames)
                         \o get_line_ending(Line)

\* one `import <name>` line per name, in ascending order of the names
OneImportPerName(names, indentation, ending) ==
    LET ascending == sorted([i \in 1..Len(names) |-> <<names[i]>>])
    IN Join([i \in 1..Len(names) |-> indentation \o import_ \o ascending[i] \o ending])

\* C27: a flagged `import a, b, c` of one line that ends in a line
\* terminator becomes one `import <name>` line per name, each with the
\* indentation and line ending of the line, in ascending order of the
\* names; without a line terminator the line is returned unchanged.
BreakUpImport ==
    (SingleLine("import") /\ Contains(Line, ",")) =>
        ml_result = IF Line[Len(Line)] = "\n"
                    THEN OneImportPerName(StatementNames, get_indentation(Line), get_line_ending(Line))
                    ELSE Line

-----------------------------------------------------------------------------
(* The rewrite of a line with an unused variable.                            *)

\* the line without its indentation and trailing whitespace
Core(line) == strip(line, bytes_wsp)

\* `except ... as name:`
IsHandler(line) ==
    /\ Len(Core(line)) >= 7
    /\ SubSeq(Core(line), 1, 2) = <<"except", " ">>
    /\ SubSeq(Core(line), Len(Core(line)) - 4, Len(Core(line)) - 2) = <<" ", "as", " ">>
    /\ IsWord(Core(line)[Len(Core(line)) - 1])
    /\ Core(line)[Len(Core(line))] = ":"

\* the handler without ` as name`
WithoutBinding(line) ==
    get_indentation(line) \o SubSeq(Core(line), 1, Len(Core(line)) - 5) \o <<":">> \o get_line_ending(line)

\* the line shows a statement that goes on
ShowsContinued(line) ==
    \/ \E ch \in {"\\", ":", ";"} : Contains(line, ch)
    \/ generate_tokens(line).error

\* what stands right of the first `=`, without the whitespace before it
RightHandSide(line) == lstrip(SubSeq(line, find(line, "=") + 2, Len(line)), bytes_wsp)

LeftHandSide(line) == SubSeq(line, 1, find(line, "="))

\* a literal, a bare name, or dict() / list() / set()
Inert(value) ==
    \/ Len(Core(value)) = 1 /\ IsWord(Core(value)[1])
    \/ Core(value) \in {<<"dict", "(", ")">>, <<"list", "(", ")">>, <<"set", "(", ")">>}

VariableReference(line) ==
    IF IsHandler(line) THEN WithoutBinding(line)
    ELSE IF ShowsContinued(line) \/ count(line, "=") /= 1 \/ Contains(LeftHandSide(line), ",") THEN line
    ELSE IF Inert(RightHandSide(line)) THEN get_indentation(line) \o pass_ \o get_line_ending(line)
    ELSE get_indentation(line) \o RightHandSide(line)

\* C28: a line rewritten for its unused variable is what the reference
\* gives: a handler `except ... as name:` loses ` as name` only; a line that
\* shows a continued statement, has not exactly one `=`, or has a comma left
\* of it, is unchanged; any other becomes indentation + `pass` + line ending
\* when its right-hand side is a literal, a bare name or an empty container
\* call, and indentation + right-hand side otherwise.
VariableRewrite ==
    \A i \in Seen :
        Branch(i) = "variable" => f_results[i] = Done(VariableReference(FLines[i]))

-----------------------------------------------------------------------------
(* What the driver returns.                                                  *)

\* what one pass of the loop makes of the text of the latest iteration,
\* under the analyzer's answer on that text
LatestPass == Iteration(d_last.source, d_last.outcome, d_given.expand_star_imports, d_given.remove_duplicate_keys, d_remove_unused_variables)

\* C29: the driver returns a text only when the latest pass ran over that
\* very text, under the analyzer's answer on it, and gave it back unchanged;
\* the empty text alone is returned without a pass.
ReturnsFixpoint ==
    Returned =>
        IF d_last.called
        THEN /\ d_last.source = d_filtered_source
             /\ LatestPass = [error |-> "", value |-> d_filtered_source]
        ELSE d_given.source = <<>> /\ d_filtered_source = <<>>

\* a text was rewritten, and the rewritten text was returned after a pass
\* over it in which the analyzer still had something to report
ReturnsFixpointWitness ==
    /\ Returned
    /\ d_last.called
    /\ d_filtered_source /= d_given.source
    /\ d_last.outcome.messages /= {}

-----------------------------------------------------------------------------
(* The pruner on a text that does not tokenize.                              *)

\* the rows of `pass` lines found before the tokenizer failed
FoundBeforeFailure == PassRows(generate_tokens(p_source).tokens, 1, "None", -1, <<"None">>, <<>>)

\* C30: when the tokenizer fails on the pruner's input, wherever in the
\* text, no line is marked and the input is emitted as it stands: rows found
\* before the failure are not removed.
NothingOnFailure ==
    (p_pc \in {"marked", "done"} /\ ~Tokenizable) =>
        /\ p_marked = {}
        /\ p_pc = "done" => p_out = p_source

\* a text whose tokenizing fails after a removable `pass` line was found
NothingOnFailureWitness ==
    /\ p_pc = "done"
    /\ ~Tokenizable
    /\ FoundBeforeFailure /= {}
    /\ p_out = p_source

====
